---- MODULE Spec2Model ----
(***************************************************************************)
(* A model of the copy-on-write B-tree of src/btree/btree.go.              *)
(*                                                                         *)
(* The Go heap is modelled explicitly: `nodes` maps a node address to the  *)
(* node stored there, `trees` holds the BTree values, `freelist` is the    *)
(* FreeList shared by all trees, `mu` is its mutex, `frame` holds the      *)
(* locals of each goroutine that is inside a free list call, and           *)
(* copy-on-write contexts are opaque identities (positive integers).  Indices in the operators are 0-based   *)
(* as in the Go code; a Go slice s is a TLA+ sequence and s[i] in Go is    *)
(* s[i+1] here.                                                            *)
(***************************************************************************)
EXTENDS Integers, Sequences, FiniteSets, TLC

VARIABLES trees, nodes, freelist, last, ref, mu, frame

vars ==
  <<trees, nodes, freelist, last, ref, mu, frame>>

(***************************************************************************)
(* Bounds of the model.                                                    *)
(***************************************************************************)
\* items carry keys 1..MaxKey
MaxKey ==
  4
\* degrees 2..MaxDegree are tried
MaxDegree ==
  3
\* number of BTree values (the original and its clones)
\* capacity the shared FreeList is created with (NewFreeList(size))
FreeListCap ==
  2
\* keys 1..MaxDeepKey of the single-tree workload
MaxDeepKey ==
  9
\* keys 1..MaxCallKey of the workload whose results are kept
MaxCallKey ==
  6

(***************************************************************************)
(* Values.                                                                 *)
(***************************************************************************)
\* the nil *node
NilNode ==
  0
\* the nil *copyOnWriteContext
NilCow ==
  0
\* the nil Item
NilItem ==
  [key |-> 0, val |-> 0]

Item(k, v) ==
  [key |-> k, val |-> v]

Items ==
  {Item(k, 0) : k \in 1..MaxKey}

\* Int.Less: the order looks at the key only
Less(a, b) ==
  a.key < b.key

removeItem ==
  1
removeMin ==
  2
removeMax ==
  3

ftFreelistFull ==
  4
ftStored ==
  5
ftNotOwned ==
  6

\* new(node): the zero value of the node struct
ZeroNode ==
  [items |-> <<>>, children |-> <<>>, cow |-> NilCow]

\* A heap is the node store and the free list that operations thread
\* through their calls, with the calls the other goroutines that share the
\* list will have made on it each time the caller gets hold of its mutex,
\* and with the calls of insert, remove and growChildAndRemove made so far.
HeapAmong(ns, fl, others) ==
  [nodes |-> ns, fl |-> fl, others |-> others, calls |-> <<>>]

\* the heap once the method fn was entered on the node n: calls holds the
\* method, its receiver and the number of items the receiver has at entry
Entry(m, fn, n) ==
  [m EXCEPT !.calls = Append(@, [fn |-> fn, n |-> n, items |-> Len(m.nodes[n].items)])]

\* the heap of a caller that runs alone
Heap(ns, fl) ==
  HeapAmong(ns, fl, <<>>)

\* the address new(node) returns: one that holds no live node
FreshNode(ns) ==
  CHOOSE i \in 1..(Cardinality(DOMAIN ns) + 1) :
    /\ i \notin DOMAIN ns
    /\ \A j \in 1..(i - 1) : j \in DOMAIN ns

\* v bound to the parameter of F: the value of a call is computed once and
\* then used by name, as a Go local variable is
With(v, F(_)) ==
  F(v)

(***************************************************************************)
(* FreeList                                                                *)
(***************************************************************************)
\* f.mu.Lock(): the caller waits for the mutex and finds the list as the
\* goroutine that held it meanwhile left it: untouched (""), shorter by the
\* node its newNode popped, or longer by the node its freeNode pushed
Lock(m) ==
  IF m.others = <<>>
  THEN m
  ELSE With([m EXCEPT !.others = Tail(m.others)], LAMBDA h :
         CASE Head(m.others) = "newNode" ->
                [h EXCEPT !.fl = SubSeq(h.fl, 1, Len(h.fl) - 1)]
           [] Head(m.others) = "freeNode" ->
                IF Len(h.fl) < FreeListCap
                THEN With(FreshNode(h.nodes), LAMBDA n :
                       [h EXCEPT !.nodes = (n :> ZeroNode) @@ h.nodes,
                                 !.fl = Append(h.fl, n)])
                ELSE h
           [] OTHER -> h)

\* a newNode that takes the node that has been in the list the longest
FreeList_newNode_oldest(m) ==
  With(Lock(m), LAMBDA h :
    LET index == Len(h.fl) - 1 IN
    IF index < 0
    THEN With(FreshNode(h.nodes), LAMBDA n :
           [m |-> [h EXCEPT !.nodes = (n :> ZeroNode) @@ h.nodes], n |-> n])
    ELSE [m |-> [h EXCEPT !.fl = Tail(h.fl)], n |-> h.fl[1]])

FreeList_newNode(m) ==
  With(Lock(m), LAMBDA h :
    LET index == Len(h.fl) - 1 IN
    IF index < 0
    THEN With(FreshNode(h.nodes), LAMBDA n :
           [m |-> [h EXCEPT !.nodes = (n :> ZeroNode) @@ h.nodes], n |-> n])
    ELSE [m |-> [h EXCEPT !.fl = SubSeq(h.fl, 1, index)], n |-> h.fl[index + 1]])

\* a freeNode that appends whatever the length of the list
FreeList_freeNode_unbounded(m, n) ==
  With(Lock(m), LAMBDA h :
    [m |-> [h EXCEPT !.fl = Append(h.fl, n)], out |-> TRUE])

FreeList_freeNode(m, n) ==
  With(Lock(m), LAMBDA h :
    IF Len(h.fl) < FreeListCap
    THEN [m |-> [h EXCEPT !.fl = Append(h.fl, n)], out |-> TRUE]
    ELSE [m |-> h, out |-> FALSE])

(***************************************************************************)
(* items and children                                                      *)
(***************************************************************************)
\* an insertAt that ignores the index and appends
items_insertAt_appending(s, index, item) ==
  Append(s, item)

items_insertAt(s, index, item) ==
  SubSeq(s, 1, index) \o <<item>> \o SubSeq(s, index + 1, Len(s))

\* a removeAt that removes the first item, whatever the index
items_removeAt_first(s, index) ==
  [s |-> Tail(s), item |-> s[1]]

items_removeAt(s, index) ==
  [s |-> SubSeq(s, 1, index) \o SubSeq(s, index + 2, Len(s)), item |-> s[index + 1]]

\* a pop that returns the last item and leaves it in place
items_pop_keeping(s) ==
  [s |-> s, out |-> s[Len(s)]]

items_pop(s) ==
  [s |-> SubSeq(s, 1, Len(s) - 1), out |-> s[Len(s)]]

items_truncate(s, index) ==
  SubSeq(s, 1, index)

\* sort.Search(n, f): binary search for the smallest i in [0, n) with f(i),
\* n when there is none; f is item.Less(s[i])
RECURSIVE Search(_, _, _, _)
Search(s, item, lo, hi) ==
  IF lo < hi
  THEN With((lo + hi) \div 2, LAMBDA h :
         IF ~Less(item, s[h + 1])
         THEN Search(s, item, h + 1, hi)
         ELSE Search(s, item, lo, h))
  ELSE lo

\* a find that never reports a match
find_neverFound(s, item) ==
  [index |-> Search(s, item, 0, Len(s)), found |-> FALSE]

find(s, item) ==
  With(Search(s, item, 0, Len(s)), LAMBDA i :
    IF i > 0 /\ ~Less(s[i], item)
    THEN [index |-> i - 1, found |-> TRUE]
    ELSE [index |-> i, found |-> FALSE])

children_insertAt(s, index, n) ==
  SubSeq(s, 1, index) \o <<n>> \o SubSeq(s, index + 1, Len(s))

children_removeAt(s, index) ==
  [s |-> SubSeq(s, 1, index) \o SubSeq(s, index + 2, Len(s)), n |-> s[index + 1]]

children_pop(s) ==
  [s |-> SubSeq(s, 1, Len(s) - 1), out |-> s[Len(s)]]

\* a truncate that keeps every child
children_truncate_keeping(s, index) ==
  s

children_truncate(s, index) ==
  SubSeq(s, 1, index)

(***************************************************************************)
(* copyOnWriteContext                                                      *)
(***************************************************************************)
copyOnWriteContext_newNode(m, c) ==
  With(FreeList_newNode(m), LAMBDA a :
    [m |-> [a.m EXCEPT !.nodes[a.n].cow = c], n |-> a.n])

\* a freeNode that does not look at the owner of the node
copyOnWriteContext_freeNode_anyOwner(m, c, n) ==
  With(FreeList_freeNode(
         [m EXCEPT !.nodes[n] =
            [items |-> items_truncate(m.nodes[n].items, 0),
             children |-> children_truncate(m.nodes[n].children, 0),
             cow |-> NilCow]], n),
       LAMBDA f :
         IF f.out
         THEN [m |-> f.m, out |-> ftStored]
         ELSE [m |-> f.m, out |-> ftFreelistFull])

\* a freeNode that clears the node it owns and drops it, never handing it
\* to the free list
copyOnWriteContext_freeNode_dropping(m, c, n) ==
  IF m.nodes[n].cow = c
  THEN [m |-> [m EXCEPT !.nodes[n] =
                 [items |-> items_truncate(m.nodes[n].items, 0),
                  children |-> children_truncate(m.nodes[n].children, 0),
                  cow |-> NilCow]],
        out |-> ftFreelistFull]
  ELSE [m |-> m, out |-> ftNotOwned]

copyOnWriteContext_freeNode(m, c, n) ==
  IF m.nodes[n].cow = c
  THEN With(FreeList_freeNode(
              [m EXCEPT !.nodes[n] =
                 [items |-> items_truncate(m.nodes[n].items, 0),
                  children |-> children_truncate(m.nodes[n].children, 0),
                  cow |-> NilCow]], n),
            LAMBDA f :
              IF f.out
              THEN [m |-> f.m, out |-> ftStored]
              ELSE [m |-> f.m, out |-> ftFreelistFull])
  ELSE [m |-> m, out |-> ftNotOwned]

(***************************************************************************)
(* node                                                                    *)
(***************************************************************************)
\* a mutableFor that hands out the node itself, whoever owns it
mutableFor_inPlace(m, n, cow) ==
  [m |-> m, n |-> n]

mutableFor(m, n, cow) ==
  IF m.nodes[n].cow = cow
  THEN [m |-> m, n |-> n]
  ELSE With(copyOnWriteContext_newNode(m, cow), LAMBDA a :
         [m |-> [a.m EXCEPT !.nodes[a.n].items = a.m.nodes[n].items,
                            !.nodes[a.n].children = a.m.nodes[n].children],
          n |-> a.n])

\* a mutableChild that hands out the child as it is, whoever owns it
mutableChild_asIs(m, n, i) ==
  [m |-> m, n |-> m.nodes[n].children[i + 1]]

mutableChild(m, n, i) ==
  With(mutableFor(m, m.nodes[n].children[i + 1], m.nodes[n].cow), LAMBDA c :
    [m |-> [c.m EXCEPT !.nodes[n].children[i + 1] = c.n], n |-> c.n])

\* a split that leaves every child with the node that is split
split_keepingChildren(m, n, i) ==
  With(copyOnWriteContext_newNode(m, m.nodes[n].cow), LAMBDA a :
    LET item == m.nodes[n].items[i + 1]
        next == a.n
        nd   == a.m.nodes[n]
    IN [m |-> [a.m EXCEPT
                 !.nodes[next].items =
                     a.m.nodes[next].items \o SubSeq(nd.items, i + 2, Len(nd.items)),
                 !.nodes[n].items = items_truncate(nd.items, i)],
        item |-> item,
        next |-> next])

split(m, n, i) ==
  With(copyOnWriteContext_newNode(m, m.nodes[n].cow), LAMBDA a :
    LET item == m.nodes[n].items[i + 1]
        next == a.n
        nd   == a.m.nodes[n]
    IN [m |-> [a.m EXCEPT
                 !.nodes[next].items =
                     a.m.nodes[next].items \o SubSeq(nd.items, i + 2, Len(nd.items)),
                 !.nodes[n].items = items_truncate(nd.items, i),
                 !.nodes[next].children =
                     IF Len(nd.children) > 0
                     THEN a.m.nodes[next].children
                            \o SubSeq(nd.children, i + 2, Len(nd.children))
                     ELSE a.m.nodes[next].children,
                 !.nodes[n].children =
                     IF Len(nd.children) > 0
                     THEN children_truncate(nd.children, i + 1)
                     ELSE nd.children],
        item |-> item,
        next |-> next])

\* a maybeSplitChild that never splits
maybeSplitChild_never(m, n, i, maxItems) ==
  [m |-> m, out |-> FALSE]

maybeSplitChild(m, n, i, maxItems) ==
  IF Len(m.nodes[m.nodes[n].children[i + 1]].items) < maxItems
  THEN [m |-> m, out |-> FALSE]
  ELSE With(mutableChild(m, n, i), LAMBDA first :
       With(split(first.m, first.n, maxItems \div 2), LAMBDA s :
         [m |-> [s.m EXCEPT
                   !.nodes[n].items = items_insertAt(s.m.nodes[n].items, i, s.item),
                   !.nodes[n].children =
                       children_insertAt(s.m.nodes[n].children, i + 1, s.next)],
          out |-> TRUE]))

RECURSIVE insert(_, _, _, _)
\* the last line of insert: n.mutableChild(i).insert(item, maxItems)
insertInChild(m, n, i, item, maxItems) ==
  With(mutableChild(m, n, i), LAMBDA c : insert(c.m, c.n, item, maxItems))

insert(m0, n, item, maxItems) ==
  With(Entry(m0, "insert", n), LAMBDA m :
  With(find(m.nodes[n].items, item), LAMBDA f :
    LET i == f.index IN
    IF f.found
    THEN [m |-> [m EXCEPT !.nodes[n].items[i + 1] = item],
          out |-> m.nodes[n].items[i + 1]]
    ELSE IF Len(m.nodes[n].children) = 0
    THEN [m |-> [m EXCEPT !.nodes[n].items = items_insertAt(m.nodes[n].items, i, item)],
          out |-> NilItem]
    ELSE With(maybeSplitChild(m, n, i, maxItems), LAMBDA sp :
           IF sp.out
           THEN LET inTree == sp.m.nodes[n].items[i + 1] IN
                IF Less(item, inTree)
                THEN insertInChild(sp.m, n, i, item, maxItems)
                ELSE IF Less(inTree, item)
                THEN insertInChild(sp.m, n, i + 1, item, maxItems)
                ELSE [m |-> [sp.m EXCEPT !.nodes[n].items[i + 1] = item],
                      out |-> inTree]
           ELSE insertInChild(sp.m, n, i, item, maxItems))))

RECURSIVE get(_, _, _)
get(ns, n, key) ==
  With(find(ns[n].items, key), LAMBDA f :
    IF f.found
    THEN ns[n].items[f.index + 1]
    ELSE IF Len(ns[n].children) > 0
    THEN get(ns, ns[n].children[f.index + 1], key)
    ELSE NilItem)

RECURSIVE minLeaf(_, _)
\* the for loop of min: the leaf reached through children[0]
minLeaf(ns, n) ==
  IF Len(ns[n].children) > 0 THEN minLeaf(ns, ns[n].children[1]) ELSE n

min(ns, n) ==
  IF n = NilNode
  THEN NilItem
  ELSE With(minLeaf(ns, n), LAMBDA l :
         IF Len(ns[l].items) = 0 THEN NilItem ELSE ns[l].items[1])

RECURSIVE maxLeaf(_, _)
\* the for loop of max: the leaf reached through the last children
maxLeaf(ns, n) ==
  IF Len(ns[n].children) > 0
  THEN maxLeaf(ns, ns[n].children[Len(ns[n].children)])
  ELSE n

max(ns, n) ==
  IF n = NilNode
  THEN NilItem
  ELSE With(maxLeaf(ns, n), LAMBDA l :
         IF Len(ns[l].items) = 0 THEN NilItem ELSE ns[l].items[Len(ns[l].items)])

\* a steal from the left child that moves the stolen item up into n and
\* leaves child i as small as it was
stealFromLeft_short(m, n, i) ==
  With(mutableChild(m, n, i), LAMBDA c :
  With(mutableChild(c.m, n, i - 1), LAMBDA sf :
    LET stealFrom == sf.n
        p == items_pop(sf.m.nodes[stealFrom].items)
    IN [sf.m EXCEPT
          !.nodes[stealFrom].items = p.s,
          !.nodes[n].items[i] = p.out]))

\* growChildAndRemove, first branch: steal from the left child
stealFromLeft(m, n, i) ==
  With(mutableChild(m, n, i), LAMBDA c :
  With(mutableChild(c.m, n, i - 1), LAMBDA sf :
    LET child     == c.n
        stealFrom == sf.n
        p  == items_pop(sf.m.nodes[stealFrom].items)
        pc == children_pop(sf.m.nodes[stealFrom].children)
        internal == Len(sf.m.nodes[stealFrom].children) > 0
    IN [sf.m EXCEPT
          !.nodes[stealFrom].items = p.s,
          !.nodes[child].items =
              items_insertAt(sf.m.nodes[child].items, 0, sf.m.nodes[n].items[i]),
          !.nodes[n].items[i] = p.out,
          !.nodes[stealFrom].children = IF internal THEN pc.s ELSE @,
          !.nodes[child].children =
              IF internal THEN children_insertAt(@, 0, pc.out) ELSE @]))

\* growChildAndRemove, second branch: steal from the right child
stealFromRight(m, n, i) ==
  With(mutableChild(m, n, i), LAMBDA c :
  With(mutableChild(c.m, n, i + 1), LAMBDA sf :
    LET child     == c.n
        stealFrom == sf.n
        r  == items_removeAt(sf.m.nodes[stealFrom].items, 0)
        rc == children_removeAt(sf.m.nodes[stealFrom].children, 0)
        internal == Len(sf.m.nodes[stealFrom].children) > 0
    IN [sf.m EXCEPT
          !.nodes[stealFrom].items = r.s,
          !.nodes[child].items = Append(@, sf.m.nodes[n].items[i + 1]),
          !.nodes[n].items[i + 1] = r.item,
          !.nodes[stealFrom].children = IF internal THEN rc.s ELSE @,
          !.nodes[child].children = IF internal THEN Append(@, rc.n) ELSE @]))

\* growChildAndRemove, third branch: merge with the right child
mergeWithRight(m, n, i0) ==
  With(IF i0 >= Len(m.nodes[n].items) THEN i0 - 1 ELSE i0, LAMBDA i :
  With(mutableChild(m, n, i), LAMBDA c :
    LET child == c.n
        ri    == items_removeAt(c.m.nodes[n].items, i)
        rc    == children_removeAt(c.m.nodes[n].children, i + 1)
        mergeChild == rc.n
    IN copyOnWriteContext_freeNode(
         [c.m EXCEPT
            !.nodes[n].items = ri.s,
            !.nodes[n].children = rc.s,
            !.nodes[child].items = Append(@, ri.item) \o c.m.nodes[mergeChild].items,
            !.nodes[child].children = @ \o c.m.nodes[mergeChild].children],
         c.m.nodes[n].cow, mergeChild).m))

\* growChildAndRemove up to, and without, its final call of remove: the
\* steal or merge that makes child i large enough
growChild(m, n, i, minItems) ==
  LET nd == m.nodes[n] IN
  IF i > 0 /\ Len(m.nodes[nd.children[i]].items) > minItems
  THEN stealFromLeft(m, n, i)
  ELSE IF i < Len(nd.items) /\ Len(m.nodes[nd.children[i + 2]].items) > minItems
  THEN stealFromRight(m, n, i)
  ELSE mergeWithRight(m, n, i)

RECURSIVE remove(_, _, _, _, _)
RECURSIVE growChildAndRemove(_, _, _, _, _, _)
\* a remove that descends into a child of exactly minItems items
removeFromChild_lax(m, n, i, found, item, minItems, typ) ==
  IF Len(m.nodes[m.nodes[n].children[i + 1]].items) < minItems
  THEN growChildAndRemove(m, n, i, item, minItems, typ)
  ELSE With(mutableChild(m, n, i), LAMBDA c :
         IF found
         THEN With(remove(c.m, c.n, NilItem, minItems, removeMax), LAMBDA r :
                [m |-> [r.m EXCEPT !.nodes[n].items[i + 1] = r.out],
                 out |-> c.m.nodes[n].items[i + 1]])
         ELSE remove(c.m, c.n, item, minItems, typ))

\* remove below its switch: child i is where the item is looked for, found
\* says that the item is items[i] of n
removeFromChild(m, n, i, found, item, minItems, typ) ==
  IF Len(m.nodes[m.nodes[n].children[i + 1]].items) <= minItems
  THEN growChildAndRemove(m, n, i, item, minItems, typ)
  ELSE With(mutableChild(m, n, i), LAMBDA c :
         IF found
         THEN With(remove(c.m, c.n, NilItem, minItems, removeMax), LAMBDA r :
                [m |-> [r.m EXCEPT !.nodes[n].items[i + 1] = r.out],
                 out |-> c.m.nodes[n].items[i + 1]])
         ELSE remove(c.m, c.n, item, minItems, typ))

remove(m0, n, item, minItems, typ) ==
  LET m    == Entry(m0, "remove", n)
      nd   == m.nodes[n]
      leaf == Len(nd.children) = 0
  IN
  IF typ = removeMax
  THEN IF leaf
       THEN With(items_pop(nd.items), LAMBDA p :
              [m |-> [m EXCEPT !.nodes[n].items = p.s], out |-> p.out])
       ELSE removeFromChild(m, n, Len(nd.items), FALSE, item, minItems, typ)
  ELSE IF typ = removeMin
  THEN IF leaf
       THEN With(items_removeAt(nd.items, 0), LAMBDA r :
              [m |-> [m EXCEPT !.nodes[n].items = r.s], out |-> r.item])
       ELSE removeFromChild(m, n, 0, FALSE, item, minItems, typ)
  ELSE With(find(nd.items, item), LAMBDA f :
         IF leaf
         THEN IF f.found
              THEN With(items_removeAt(nd.items, f.index), LAMBDA r :
                     [m |-> [m EXCEPT !.nodes[n].items = r.s], out |-> r.item])
              ELSE [m |-> m, out |-> NilItem]
         ELSE removeFromChild(m, n, f.index, f.found, item, minItems, typ))

growChildAndRemove(m, n, i, item, minItems, typ) ==
  remove(growChild(Entry(m, "growChildAndRemove", n), n, i, minItems),
         n, item, minItems, typ)

(***************************************************************************)
(* iterate.  The visitor is modelled by the record v: it appends every     *)
(* item it is called with to v.seen and returns false on call number       *)
(* v.stopAt (never when stopAt = 0).                                       *)
(***************************************************************************)
Visitor(stopAt) ==
  [seen |-> <<>>, stopAt |-> stopAt, entered |-> 0, at |-> 0]

\* the visitor after one more call of iterate began: entered counts the
\* nodes iterate was called on, at is that count at the visitor's last call
Entered(v) ==
  [v EXCEPT !.entered = v.entered + 1]

\* the visitor called with item: its new state and what it returns
iter(v, item) ==
  [v |-> [v EXCEPT !.seen = Append(v.seen, item), !.at = v.entered],
   ok |-> Len(v.seen) + 1 # v.stopAt]

ascend ==
  1
descend ==
  -1

RECURSIVE iterate(_, _, _, _, _, _, _, _)
RECURSIVE ascendLoop(_, _, _, _, _, _, _, _)
RECURSIVE descendLoop(_, _, _, _, _, _, _, _)
\* what a call of iterate returns, with the visitor's state
Iterated(hit, ok, v) ==
  [hit |-> hit, ok |-> ok, v |-> v]

\* an ascending loop body that goes on when the visitor returns false
ascendItem_deaf(ns, n, i, start, stop, includeStart, c) ==
  LET item == ns[n].items[i + 1] IN
  IF ~c.ok
  THEN Iterated(c.hit, FALSE, c.v)
  ELSE IF ~includeStart /\ ~c.hit /\ start # NilItem /\ ~Less(start, item)
  THEN ascendLoop(ns, n, i + 1, start, stop, includeStart, TRUE, c.v)
  ELSE IF stop # NilItem /\ ~Less(item, stop)
  THEN Iterated(TRUE, FALSE, c.v)
  ELSE ascendLoop(ns, n, i + 1, start, stop, includeStart, TRUE, iter(c.v, item).v)

\* the body of the ascending loop at index i after the visit of child i,
\* which returned c
ascendItem(ns, n, i, start, stop, includeStart, c) ==
  LET item == ns[n].items[i + 1] IN
  IF ~c.ok
  THEN Iterated(c.hit, FALSE, c.v)
  ELSE IF ~includeStart /\ ~c.hit /\ start # NilItem /\ ~Less(start, item)
  THEN ascendLoop(ns, n, i + 1, start, stop, includeStart, TRUE, c.v)
  ELSE IF stop # NilItem /\ ~Less(item, stop)
  THEN Iterated(TRUE, FALSE, c.v)
  ELSE With(iter(c.v, item), LAMBDA r :
         IF ~r.ok
         THEN Iterated(TRUE, FALSE, r.v)
         ELSE ascendLoop(ns, n, i + 1, start, stop, includeStart, TRUE, r.v))

\* the ascending for loop from index i on, and the visit of the last child
ascendLoop(ns, n, i, start, stop, includeStart, hit, v) ==
  LET nd == ns[n] IN
  IF i < Len(nd.items)
  THEN ascendItem(ns, n, i, start, stop, includeStart,
                  IF Len(nd.children) > 0
                  THEN iterate(ns, nd.children[i + 1], ascend, start, stop,
                               includeStart, hit, v)
                  ELSE Iterated(hit, TRUE, v))
  ELSE IF Len(nd.children) > 0
  THEN iterate(ns, nd.children[Len(nd.children)], ascend, start, stop,
               includeStart, hit, v)
  ELSE Iterated(hit, TRUE, v)

\* the body of the descending loop at index i after the visit of child
\* i+1, which returned c
descendItem(ns, n, i, start, stop, includeStart, c) ==
  LET item == ns[n].items[i + 1] IN
  IF ~c.ok
  THEN Iterated(c.hit, FALSE, c.v)
  ELSE IF stop # NilItem /\ ~Less(stop, item)
  THEN Iterated(c.hit, FALSE, c.v)
  ELSE With(iter(c.v, item), LAMBDA r :
         IF ~r.ok
         THEN Iterated(TRUE, FALSE, r.v)
         ELSE descendLoop(ns, n, i - 1, start, stop, includeStart, TRUE, r.v))

\* the descending for loop from index i down, and the visit of the first child
descendLoop(ns, n, i, start, stop, includeStart, hit, v) ==
  LET nd == ns[n] IN
  IF i >= 0
  THEN IF /\ start # NilItem
          /\ ~Less(nd.items[i + 1], start)
          /\ (~includeStart \/ hit \/ Less(start, nd.items[i + 1]))
       THEN descendLoop(ns, n, i - 1, start, stop, includeStart, hit, v)
       ELSE descendItem(ns, n, i, start, stop, includeStart,
                        IF Len(nd.children) > 0
                        THEN iterate(ns, nd.children[i + 2], descend, start, stop,
                                     includeStart, hit, v)
                        ELSE Iterated(hit, TRUE, v))
  ELSE IF Len(nd.children) > 0
  THEN iterate(ns, nd.children[1], descend, start, stop, includeStart, hit, v)
  ELSE Iterated(hit, TRUE, v)

iterate(ns, n, dir, start, stop, includeStart, hit, v) ==
  IF dir = ascend
  THEN ascendLoop(ns, n,
                  IF start # NilItem THEN find(ns[n].items, start).index ELSE 0,
                  start, stop, includeStart, hit, Entered(v))
  ELSE descendLoop(ns, n,
                   IF start # NilItem
                   THEN With(find(ns[n].items, start), LAMBDA f :
                          IF ~f.found THEN f.index - 1 ELSE f.index)
                   ELSE Len(ns[n].items) - 1,
                   start, stop, includeStart, hit, Entered(v))

(***************************************************************************)
(* node.reset                                                              *)
(***************************************************************************)
RECURSIVE reset(_, _, _)
RECURSIVE resetChildren(_, _, _, _)
RECURSIVE resetChildren_all(_, _, _, _)
\* a loop of reset that goes on to the next child whatever reset returned
resetChildren_all(m, kids, k, c) ==
  IF k < Len(kids)
  THEN With(reset(m, kids[k + 1], c), LAMBDA r :
         resetChildren_all(r.m, kids, k + 1, c))
  ELSE [m |-> m, ok |-> TRUE]

\* the loop of reset over the children kids[k..] of a node
resetChildren(m, kids, k, c) ==
  IF k < Len(kids)
  THEN With(reset(m, kids[k + 1], c), LAMBDA r :
         IF ~r.ok THEN r ELSE resetChildren(r.m, kids, k + 1, c))
  ELSE [m |-> m, ok |-> TRUE]

reset(m, n, c) ==
  With(resetChildren(m, m.nodes[n].children, 0, c), LAMBDA r :
    IF ~r.ok
    THEN r
    ELSE With(copyOnWriteContext_freeNode(r.m, c, n), LAMBDA f :
           [m |-> f.m, ok |-> f.out # ftFreelistFull]))

(***************************************************************************)
(* BTree                                                                   *)
(***************************************************************************)
\* &cow: the identity of a newly allocated context, none of those in used
FreshCow(used) ==
  CHOOSE c \in 1..(Cardinality(used) + 1) : c \notin used

\* what a call that panicked leaves: the heap m and the tree t at the time
\* of the panic, and the panic's message
Panic(m, t, msg) ==
  [m |-> m, t |-> t, out |-> NilItem, panic |-> msg]

\* whether the result r of a call is a panic
Panicked(r) ==
  "panic" \in DOMAIN r

\* a NewWithFreeList that takes any degree
NewWithFreeList_unchecked(degree, cow) ==
  [degree |-> degree, length |-> 0, root |-> NilNode, cow |-> cow]

\* NewWithFreeList(degree, f): the tree's context has identity cow; a panic
\* returns no tree
NewWithFreeList(degree, cow) ==
  IF degree <= 1
  THEN [panic |-> "bad degree"]
  ELSE [degree |-> degree, length |-> 0, root |-> NilNode, cow |-> cow]

maxItems(t) ==
  t.degree * 2 - 1

minItems(t) ==
  t.degree - 1

\* a root split that leaves the root as it is
splitRoot_none(m, t, oldroot) ==
  [m |-> m, n |-> oldroot]

\* ReplaceOrInsert when the root has maxItems items: the root r is split and
\* a new root holds the middle item and the two halves
\* a split of the root whose new root belongs to no context
splitRoot_unowned(m, t, oldroot) ==
  With(split(m, oldroot, maxItems(t) \div 2), LAMBDA s :
  With(copyOnWriteContext_newNode(s.m, NilCow), LAMBDA a :
    [m |-> [a.m EXCEPT
              !.nodes[a.n].items = Append(@, s.item),
              !.nodes[a.n].children = @ \o <<oldroot, s.next>>],
     n |-> a.n]))

splitRoot(m, t, oldroot) ==
  With(split(m, oldroot, maxItems(t) \div 2), LAMBDA s :
  With(copyOnWriteContext_newNode(s.m, t.cow), LAMBDA a :
    [m |-> [a.m EXCEPT
              !.nodes[a.n].items = Append(@, s.item),
              !.nodes[a.n].children = @ \o <<oldroot, s.next>>],
     n |-> a.n]))

\* a ReplaceOrInsert that looks for a nil item only after it has made sure
\* the tree has a root it may write
BTree_ReplaceOrInsert_lateCheck(m, t, item) ==
  IF t.root = NilNode
  THEN With(copyOnWriteContext_newNode(m, t.cow), LAMBDA a :
         IF item = NilItem
         THEN Panic(a.m, [t EXCEPT !.root = a.n], "nil item being added to BTree")
         ELSE [m |-> [a.m EXCEPT !.nodes[a.n].items = Append(@, item)],
               t |-> [t EXCEPT !.root = a.n, !.length = t.length + 1],
               out |-> NilItem])
  ELSE With(mutableFor(m, t.root, t.cow), LAMBDA r :
       With(IF Len(r.m.nodes[r.n].items) >= maxItems(t)
            THEN splitRoot(r.m, t, r.n)
            ELSE r, LAMBDA g :
         IF item = NilItem
         THEN Panic(g.m, [t EXCEPT !.root = g.n], "nil item being added to BTree")
         ELSE With(insert(g.m, g.n, item, maxItems(t)), LAMBDA o :
                [m |-> o.m,
                 t |-> [t EXCEPT !.root = g.n,
                                 !.length = IF o.out = NilItem THEN t.length + 1
                                            ELSE t.length],
                 out |-> o.out])))

BTree_ReplaceOrInsert(m, t, item) ==
  IF item = NilItem
  THEN Panic(m, t, "nil item being added to BTree")
  ELSE IF t.root = NilNode
  THEN With(copyOnWriteContext_newNode(m, t.cow), LAMBDA a :
         [m |-> [a.m EXCEPT !.nodes[a.n].items = Append(@, item)],
          t |-> [t EXCEPT !.root = a.n, !.length = t.length + 1],
          out |-> NilItem])
  ELSE With(mutableFor(m, t.root, t.cow), LAMBDA r :
       With(IF Len(r.m.nodes[r.n].items) >= maxItems(t)
            THEN splitRoot(r.m, t, r.n)
            ELSE r, LAMBDA g :
       With(insert(g.m, g.n, item, maxItems(t)), LAMBDA o :
         [m |-> o.m,
          t |-> [t EXCEPT !.root = g.n,
                          !.length = IF o.out = NilItem THEN t.length + 1 ELSE t.length],
          out |-> o.out])))

\* a deleteItem that keeps the root whatever remove has left of it
deleteItem_keepingRoot(m, t, item, typ) ==
  IF t.root = NilNode \/ Len(m.nodes[t.root].items) = 0
  THEN [m |-> m, t |-> t, out |-> NilItem]
  ELSE With(mutableFor(m, t.root, t.cow), LAMBDA r :
       With(remove(r.m, r.n, item, minItems(t), typ), LAMBDA o :
         [m |-> o.m,
          t |-> [t EXCEPT
                   !.root = r.n,
                   !.length = IF o.out # NilItem THEN t.length - 1 ELSE t.length],
          out |-> o.out]))

deleteItem(m, t, item, typ) ==
  IF t.root = NilNode \/ Len(m.nodes[t.root].items) = 0
  THEN [m |-> m, t |-> t, out |-> NilItem]
  ELSE With(mutableFor(m, t.root, t.cow), LAMBDA r :
       With(remove(r.m, r.n, item, minItems(t), typ), LAMBDA o :
         LET oldroot == r.n
             shrink  == /\ Len(o.m.nodes[oldroot].items) = 0
                        /\ Len(o.m.nodes[oldroot].children) > 0
         IN [m |-> IF shrink
                   THEN copyOnWriteContext_freeNode(o.m, t.cow, oldroot).m
                   ELSE o.m,
             t |-> [t EXCEPT
                      !.root = IF shrink THEN o.m.nodes[oldroot].children[1] ELSE oldroot,
                      !.length = IF o.out # NilItem THEN t.length - 1 ELSE t.length],
             out |-> o.out]))

BTree_Delete(m, t, item) ==
  deleteItem(m, t, item, removeItem)

\* a DeleteMin that asks for the largest item
BTree_DeleteMin_max(m, t) ==
  deleteItem(m, t, NilItem, removeMax)

BTree_DeleteMin(m, t) ==
  deleteItem(m, t, NilItem, removeMin)

BTree_DeleteMax(m, t) ==
  deleteItem(m, t, NilItem, removeMax)

\* a Clear that leaves the length as it was
BTree_Clear_keepingLength(m, t, addNodesToFreelist) ==
  [m |-> m, t |-> [t EXCEPT !.root = NilNode], out |-> addNodesToFreelist]

\* a Clear that hands the nodes to the free list whatever its flag says
BTree_Clear_alwaysFreeing(m, t, addNodesToFreelist) ==
  [m |-> IF t.root # NilNode
         THEN reset(m, t.root, t.cow).m
         ELSE m,
   t |-> [t EXCEPT !.root = NilNode, !.length = 0],
   out |-> addNodesToFreelist]

\* a Clear that releases the nodes and leaves the root where it was
BTree_Clear_keepingRoot(m, t, addNodesToFreelist) ==
  [m |-> IF t.root # NilNode /\ addNodesToFreelist
         THEN reset(m, t.root, t.cow).m
         ELSE m,
   t |-> [t EXCEPT !.length = 0],
   out |-> addNodesToFreelist]

BTree_Clear(m, t, addNodesToFreelist) ==
  [m |-> IF t.root # NilNode /\ addNodesToFreelist
         THEN reset(m, t.root, t.cow).m
         ELSE m,
   t |-> [t EXCEPT !.root = NilNode, !.length = 0],
   out |-> addNodesToFreelist]

\* Clone: t keeps its fields under the new context cow1, the clone t2 is a
\* copy of t under the new context cow2; used are the contexts in use
\* a Clone that leaves both trees with the context the tree had
BTree_Clone_sameContext(t, used) ==
  [t |-> t, t2 |-> t]

\* a Clone that makes a new context for the clone only
BTree_Clone_oneFresh(t, used) ==
  [t |-> t, t2 |-> [t EXCEPT !.cow = FreshCow(used)]]

BTree_Clone(t, used) ==
  With(FreshCow(used), LAMBDA cow1 :
  With(FreshCow(used \cup {cow1}), LAMBDA cow2 :
    [t |-> [t EXCEPT !.cow = cow1], t2 |-> [t EXCEPT !.cow = cow2]]))

BTree_Get(ns, t, key) ==
  IF t.root = NilNode THEN NilItem ELSE get(ns, t.root, key)

BTree_Min(ns, t) ==
  min(ns, t.root)

\* a Max that walks to the first leaf
BTree_Max_first(ns, t) ==
  min(ns, t.root)

BTree_Max(ns, t) ==
  max(ns, t.root)

BTree_Has(ns, t, key) ==
  BTree_Get(ns, t, key) # NilItem

BTree_Len(t) ==
  t.length

\* The eight iterators: the visitor v after the call returned; v.seen are
\* the items it was called with, in order.
BTree_AscendRange(ns, t, greaterOrEqual, lessThan, v) ==
  IF t.root = NilNode THEN v
  ELSE iterate(ns, t.root, ascend, greaterOrEqual, lessThan, TRUE, FALSE, v).v

\* an AscendLessThan that ignores its pivot
BTree_AscendLessThan_unbounded(ns, t, pivot, v) ==
  IF t.root = NilNode THEN v
  ELSE iterate(ns, t.root, ascend, NilItem, NilItem, FALSE, FALSE, v).v

BTree_AscendLessThan(ns, t, pivot, v) ==
  IF t.root = NilNode THEN v
  ELSE iterate(ns, t.root, ascend, NilItem, pivot, FALSE, FALSE, v).v

BTree_AscendGreaterOrEqual(ns, t, pivot, v) ==
  IF t.root = NilNode THEN v
  ELSE iterate(ns, t.root, ascend, pivot, NilItem, TRUE, FALSE, v).v

BTree_Ascend(ns, t, v) ==
  IF t.root = NilNode THEN v
  ELSE iterate(ns, t.root, ascend, NilItem, NilItem, FALSE, FALSE, v).v

BTree_DescendRange(ns, t, lessOrEqual, greaterThan, v) ==
  IF t.root = NilNode THEN v
  ELSE iterate(ns, t.root, descend, lessOrEqual, greaterThan, TRUE, FALSE, v).v

BTree_DescendLessOrEqual(ns, t, pivot, v) ==
  IF t.root = NilNode THEN v
  ELSE iterate(ns, t.root, descend, pivot, NilItem, TRUE, FALSE, v).v

\* a DescendGreaterThan that takes its pivot as the start, not the stop
BTree_DescendGreaterThan_fromPivot(ns, t, pivot, v) ==
  IF t.root = NilNode THEN v
  ELSE iterate(ns, t.root, descend, pivot, NilItem, FALSE, FALSE, v).v

BTree_DescendGreaterThan(ns, t, pivot, v) ==
  IF t.root = NilNode THEN v
  ELSE iterate(ns, t.root, descend, NilItem, pivot, FALSE, FALSE, v).v

BTree_Descend(ns, t, v) ==
  IF t.root = NilNode THEN v
  ELSE iterate(ns, t.root, descend, NilItem, NilItem, FALSE, FALSE, v).v

(***************************************************************************)
(* The state machine.  The program holds two tree variables, t and t2;     *)
(* trees[x] is the BTree x points to (NilTree while x is unassigned),      *)
(* nodes the live part of the heap, freelist the FreeList every tree       *)
(* shares, last the most recent call and what it returned, and ref[x] the  *)
(* reference set: the items an ordered set holds after the same inserts    *)
(* and deletes.                                                            *)
(***************************************************************************)
TreeVars ==
  <<"t", "t2">>

TreeNames ==
  {TreeVars[k] : k \in 1..Len(TreeVars)}

\* the nil *BTree
NilTree ==
  [degree |-> 0, length |-> 0, root |-> NilNode, cow |-> NilCow]

Degrees ==
  2..MaxDegree

\* the tree variables that point to a tree
Trees ==
  {x \in TreeNames : trees[x] # NilTree}

RECURSIVE Visit(_, _, _)
RECURSIVE VisitAll(_, _, _, _)
\* the addresses met by a pre-order walk from n, appended to those in acc
Visit(ns, n, acc) ==
  IF n = NilNode \/ \E k \in 1..Len(acc) : acc[k] = n
  THEN acc
  ELSE VisitAll(ns, ns[n].children, 0, Append(acc, n))

VisitAll(ns, list, k, acc) ==
  IF k < Len(list)
  THEN VisitAll(ns, list, k + 1, Visit(ns, list[k + 1], acc))
  ELSE acc

\* the position of x in the sequence order
IndexOf(order, x) ==
  CHOOSE k \in 1..Len(order) : order[k] = x

RECURSIVE FirstSeen(_, _, _)
\* the distinct non-nil values of list[k+1..], in order of first occurrence
FirstSeen(list, k, acc) ==
  IF k < Len(list)
  THEN FirstSeen(list, k + 1,
                 IF list[k + 1] = NilCow \/ \E j \in 1..Len(acc) : acc[j] = list[k + 1]
                 THEN acc
                 ELSE Append(acc, list[k + 1]))
  ELSE acc

\* the heap with its nodes at the addresses their position in order gives
\* and its contexts named by their position in cows
Renumbered(ts, ns, fl, order, cows) ==
  LET addr(n) == IF n = NilNode THEN NilNode ELSE IndexOf(order, n)
      ctx(c)  == IF c = NilCow THEN NilCow ELSE IndexOf(cows, c)
  IN [trees |-> [x \in TreeNames |->
                   [ts[x] EXCEPT !.root = addr(ts[x].root), !.cow = ctx(ts[x].cow)]],
      nodes |-> [i \in 1..Len(order) |->
                   [items |-> ns[order[i]].items,
                    children |-> [k \in 1..Len(ns[order[i]].children) |->
                                    addr(ns[order[i]].children[k])],
                    cow |-> ctx(ns[order[i]].cow)]],
      fl |-> [k \in 1..Len(fl) |-> addr(fl[k])]]

\* The garbage collector.  Only nodes reachable from a tree or held by the
\* free list stay in the heap; addresses and context identities are opaque,
\* so the live nodes and contexts are renumbered in the order a walk from
\* t, t2 and the free list meets them.
Collect(ts, ns, fl) ==
  With(VisitAll(ns, [k \in 1..Len(TreeVars) |-> ts[TreeVars[k]].root] \o fl, 0, <<>>),
       LAMBDA order :
         Renumbered(ts, ns, fl, order,
                    FirstSeen([k \in 1..Len(TreeVars) |-> ts[TreeVars[k]].cow]
                                \o [k \in 1..Len(order) |-> ns[order[k]].cow], 0, <<>>)))

\* contexts some tree or node still refers to
UsedCows ==
  {trees[x].cow : x \in TreeNames} \cup {nodes[n].cow : n \in DOMAIN nodes}

\* the zero value of sync.Mutex: nobody holds it
Unlocked ==
  ""

\* a goroutine that is in no call of the free list: pc is the statement it
\* is at, n, index and out are the locals of the call, and at is the list
\* its Lock found
Idle ==
  [pc |-> "idle", n |-> NilNode, index |-> 0, out |-> FALSE, at |-> <<>>]

Call(op, x, arg, out) ==
  [op |-> op, t |-> x, arg |-> arg, out |-> out, panic |-> ""]

\* the call op(arg) on tree x that panicked with msg
Aborted(op, x, arg, msg) ==
  [op |-> op, t |-> x, arg |-> arg, out |-> NilItem, panic |-> msg]

\* what last holds after a call whose result the caller dropped
Dropped ==
  Call("", "", NilItem, NilItem)

\* the state the collector leaves
Collected(c) ==
  /\ trees' = c.trees
  /\ nodes' = c.nodes
  /\ freelist' = c.fl
  /\ UNCHANGED <<mu, frame>>

\* the state after the call op(arg) on tree x returned r: the tree r.t, the
\* heap r.m and the result r.out, which the caller keeps in last or drops
Return(op, x, arg, r, keep) ==
  /\ Collected(Collect([trees EXCEPT ![x] = r.t], r.m.nodes, r.m.fl))
  /\ last' = IF Panicked(r) THEN Aborted(op, x, arg, r.panic)
             ELSE IF keep THEN Call(op, x, arg, r.out)
             ELSE Dropped

SameKey(S, item) ==
  {x \in S : x.key = item.key}

MinOf(S) ==
  CHOOSE x \in S : \A y \in S : x.key <= y.key

MaxOf(S) ==
  CHOOSE x \in S : \A y \in S : x.key >= y.key

ReplaceOrInsert(x, item, keep) ==
  /\ Return("ReplaceOrInsert", x, item,
            BTree_ReplaceOrInsert(Heap(nodes, freelist), trees[x], item), keep)
  /\ ref' = IF item = NilItem THEN ref
            ELSE [ref EXCEPT ![x] = (ref[x] \ SameKey(ref[x], item)) \cup {item}]

Delete(x, item, keep) ==
  /\ Return("Delete", x, item,
            BTree_Delete(Heap(nodes, freelist), trees[x], item), keep)
  /\ ref' = [ref EXCEPT ![x] = ref[x] \ SameKey(ref[x], item)]

DeleteMin(x, keep) ==
  /\ Return("DeleteMin", x, NilItem, BTree_DeleteMin(Heap(nodes, freelist), trees[x]), keep)
  /\ ref' = [ref EXCEPT ![x] = IF ref[x] = {} THEN {} ELSE ref[x] \ {MinOf(ref[x])}]

DeleteMax(x, keep) ==
  /\ Return("DeleteMax", x, NilItem, BTree_DeleteMax(Heap(nodes, freelist), trees[x]), keep)
  /\ ref' = [ref EXCEPT ![x] = IF ref[x] = {} THEN {} ELSE ref[x] \ {MaxOf(ref[x])}]

Clear(x, addNodesToFreelist, keep) ==
  /\ Return("Clear", x, addNodesToFreelist,
            BTree_Clear(Heap(nodes, freelist), trees[x], addNodesToFreelist), keep)
  /\ ref' = [ref EXCEPT ![x] = {}]

\* y = x.Clone()
Clone(x, y, keep) ==
  /\ x # y
  /\ With(BTree_Clone(trees[x], UsedCows), LAMBDA r :
       Collected(Collect([trees EXCEPT ![x] = r.t, ![y] = r.t2], nodes, freelist)))
  /\ last' = IF keep THEN Call("Clone", x, NilItem, y) ELSE Dropped
  /\ ref' = [ref EXCEPT ![y] = ref[x]]

Get(x, key) ==
  /\ last' = Call("Get", x, key, BTree_Get(nodes, trees[x], key))
  /\ UNCHANGED <<trees, nodes, freelist, ref, mu, frame>>

Has(x, key) ==
  /\ last' = Call("Has", x, key, BTree_Has(nodes, trees[x], key))
  /\ UNCHANGED <<trees, nodes, freelist, ref, mu, frame>>

Min(x) ==
  /\ last' = Call("Min", x, NilItem, BTree_Min(nodes, trees[x]))
  /\ UNCHANGED <<trees, nodes, freelist, ref, mu, frame>>

Max(x) ==
  /\ last' = Call("Max", x, NilItem, BTree_Max(nodes, trees[x]))
  /\ UNCHANGED <<trees, nodes, freelist, ref, mu, frame>>

Length(x) ==
  /\ last' = Call("Len", x, NilItem, BTree_Len(trees[x]))
  /\ UNCHANGED <<trees, nodes, freelist, ref, mu, frame>>

(***************************************************************************)
(* Spec: two trees that share nodes.  Any interleaving of writes, Clear    *)
(* and Clone on t and t2 with items of keys 1..MaxKey; the caller drops    *)
(* the results.                                                            *)
(***************************************************************************)
Init ==
  /\ \E d \in Degrees :
       trees = [x \in TreeNames |-> IF x = "t" THEN NewWithFreeList(d, 1) ELSE NilTree]
  /\ nodes = <<>>
  /\ freelist = <<>>
  /\ last = Dropped
  /\ ref = [x \in TreeNames |-> {}]
  /\ mu = Unlocked
  /\ frame = [x \in TreeNames |-> Idle]

Next ==
  \E x \in Trees :
    \/ \E item \in Items : ReplaceOrInsert(x, item, FALSE)
    \/ \E item \in Items : Delete(x, item, FALSE)
    \/ DeleteMin(x, FALSE)
    \/ DeleteMax(x, FALSE)
    \/ \E flag \in BOOLEAN : Clear(x, flag, FALSE)
    \/ \E y \in TreeNames : Clone(x, y, FALSE)

Spec ==
  Init /\ [][Next]_vars

(***************************************************************************)
(* SpecDeep: one tree, never cloned, under writes with items of keys       *)
(* 1..MaxDeepKey, enough for a tree of three levels whose inner nodes      *)
(* steal and merge; the caller drops the results.                          *)
(***************************************************************************)
DeepItems ==
  {Item(k, 0) : k \in 1..MaxDeepKey}

NextDeep ==
  \/ \E item \in DeepItems : ReplaceOrInsert("t", item, FALSE)
  \/ \E item \in DeepItems : Delete("t", item, FALSE)
  \/ DeleteMin("t", FALSE)
  \/ DeleteMax("t", FALSE)
  \/ \E flag \in BOOLEAN : Clear("t", flag, FALSE)

SpecDeep ==
  Init /\ [][NextDeep]_vars

(***************************************************************************)
(* SpecCall: one tree under writes and reads with items of keys            *)
(* 1..MaxCallKey, some of them in two versions that are equal under Less;  *)
(* last holds what each call returned.                                     *)
(***************************************************************************)
CallItems ==
  {Item(k, 0) : k \in 1..MaxCallKey} \cup {Item((MaxCallKey + 1) \div 2, 1)}

NextCall ==
  \/ \E item \in CallItems : ReplaceOrInsert("t", item, TRUE)
  \/ \E item \in CallItems : Delete("t", item, TRUE)
  \/ DeleteMin("t", TRUE)
  \/ DeleteMax("t", TRUE)
  \/ \E flag \in BOOLEAN : Clear("t", flag, TRUE)
  \/ \E key \in CallItems : Get("t", key)
  \/ \E key \in CallItems : Has("t", key)
  \/ Min("t")
  \/ Max("t")
  \/ Length("t")

SpecCall ==
  Init /\ [][NextCall]_vars

(***************************************************************************)
(* SpecAbort: one tree made with any degree from 0 on, under writes with   *)
(* items of keys 1..MaxKey and with the nil item.  A panic ends the        *)
(* program: last holds the call that panicked and nothing runs after it.   *)
(***************************************************************************)
InitAbort ==
  /\ \E d \in 0..MaxDegree :
       With(NewWithFreeList(d, 1), LAMBDA r :
         IF Panicked(r)
         THEN /\ trees = [x \in TreeNames |-> NilTree]
              /\ last = Aborted("New", "t", NilItem, r.panic)
         ELSE /\ trees = [x \in TreeNames |-> IF x = "t" THEN r ELSE NilTree]
              /\ last = Dropped)
  /\ nodes = <<>>
  /\ freelist = <<>>
  /\ ref = [x \in TreeNames |-> {}]
  /\ mu = Unlocked
  /\ frame = [x \in TreeNames |-> Idle]

NextAbort ==
  /\ last.panic = ""
  /\ \/ \E item \in Items \cup {NilItem} : ReplaceOrInsert("t", item, TRUE)
     \/ \E item \in Items : Delete("t", item, TRUE)
     \/ DeleteMin("t", TRUE)
     \/ DeleteMax("t", TRUE)
     \/ \E flag \in BOOLEAN : Clear("t", flag, TRUE)

SpecAbort ==
  InitAbort /\ [][NextAbort]_vars

(***************************************************************************)
(* SpecLock: the goroutines that write t and its clone t2 call newNode and *)
(* freeNode of their contexts in any order, and the calls run interleaved  *)
(* statement by statement.  frame[x].pc is the statement the writer of x   *)
(* is at; a node a context owns stands for a node of its tree.             *)
(***************************************************************************)
\* new(node) is called for at most MaxLockNodes live nodes
MaxLockNodes ==
  3

\* a Lock that does not wait for the mutex
mu_Lock_barging(x) ==
  mu' = x

\* f.mu.Lock() by the writer of x: waits until nobody holds the mutex
mu_Lock(x) ==
  /\ mu = Unlocked
  /\ mu' = x

\* defer f.mu.Unlock()
mu_Unlock(x) ==
  mu' = Unlocked

\* the statements of FreeList.newNode and FreeList.freeNode that run
\* between Lock and Unlock
Critical ==
  {"newNode:index", "newNode:if", "newNode:nil", "newNode:truncate", "newNode:Unlock",
   "freeNode:if", "freeNode:append", "freeNode:Unlock"}

\* writers whose newNode may still call new(node)
MayAllocate ==
  {y \in TreeNames : frame[y].pc \in {"newNode:Lock", "newNode:index", "newNode:if"}}

\* writers whose newNode has read its node and not yet shortened the list
Popping ==
  {y \in TreeNames : frame[y].pc \in {"newNode:nil", "newNode:truncate"}}

\* c.newNode() is called, while the list has a node left for the call or
\* new(node) stays within MaxLockNodes
newNode_call(x) ==
  /\ frame[x].pc = "idle"
  /\ \/ Cardinality(DOMAIN nodes) + Cardinality(MayAllocate) < MaxLockNodes
     \/ Len(freelist) - Cardinality(Popping) > Cardinality(MayAllocate)
  /\ frame' = [frame EXCEPT ![x].pc = "newNode:Lock"]
  /\ UNCHANGED <<trees, nodes, freelist, last, ref, mu>>

newNode_Lock(x) ==
  /\ frame[x].pc = "newNode:Lock"
  /\ mu_Lock(x)
  /\ frame' = [frame EXCEPT ![x].pc = "newNode:index", ![x].at = freelist]
  /\ UNCHANGED <<trees, nodes, freelist, last, ref>>

\* index := len(f.freelist) - 1
newNode_index(x) ==
  /\ frame[x].pc = "newNode:index"
  /\ frame' = [frame EXCEPT ![x].pc = "newNode:if", ![x].index = Len(freelist) - 1]
  /\ UNCHANGED <<trees, nodes, freelist, last, ref, mu>>

\* if index < 0 { return new(node) }
newNode_new(x) ==
  /\ frame[x].pc = "newNode:if"
  /\ frame[x].index < 0
  /\ With(FreshNode(nodes), LAMBDA n :
       /\ nodes' = (n :> ZeroNode) @@ nodes
       /\ frame' = [frame EXCEPT ![x].pc = "newNode:Unlock", ![x].n = n])
  /\ UNCHANGED <<trees, freelist, last, ref, mu>>

\* n = f.freelist[index]
newNode_read(x) ==
  /\ frame[x].pc = "newNode:if"
  /\ frame[x].index >= 0
  /\ frame' = [frame EXCEPT ![x].pc = "newNode:nil", ![x].n = freelist[frame[x].index + 1]]
  /\ UNCHANGED <<trees, nodes, freelist, last, ref, mu>>

\* f.freelist[index] = nil
newNode_nil(x) ==
  /\ frame[x].pc = "newNode:nil"
  /\ freelist' = [freelist EXCEPT ![frame[x].index + 1] = NilNode]
  /\ frame' = [frame EXCEPT ![x].pc = "newNode:truncate"]
  /\ UNCHANGED <<trees, nodes, last, ref, mu>>

\* f.freelist = f.freelist[:index]
newNode_truncate(x) ==
  /\ frame[x].pc = "newNode:truncate"
  /\ freelist' = SubSeq(freelist, 1, frame[x].index)
  /\ frame' = [frame EXCEPT ![x].pc = "newNode:Unlock"]
  /\ UNCHANGED <<trees, nodes, last, ref, mu>>

newNode_Unlock(x) ==
  /\ frame[x].pc = "newNode:Unlock"
  /\ mu_Unlock(x)
  /\ frame' = [frame EXCEPT ![x].pc = "newNode:cow"]
  /\ UNCHANGED <<trees, nodes, freelist, last, ref>>

\* n.cow = c; return n
newNode_cow(x) ==
  /\ frame[x].pc = "newNode:cow"
  /\ nodes' = [nodes EXCEPT ![frame[x].n].cow = trees[x].cow]
  /\ last' = Call("newNode", x, NilItem, frame[x].n)
  /\ frame' = [frame EXCEPT ![x] = Idle]
  /\ UNCHANGED <<trees, freelist, ref, mu>>

\* c.freeNode(n) of a node another context owns: return ftNotOwned
freeNode_notOwned(x, n) ==
  /\ frame[x].pc = "idle"
  /\ nodes[n].cow # NilCow
  /\ nodes[n].cow # trees[x].cow
  /\ last' = Call("freeNode", x, n, ftNotOwned)
  /\ UNCHANGED <<trees, nodes, freelist, ref, mu, frame>>

\* c.freeNode(n) of a node c owns: the node is cleared and handed to
\* c.freelist.freeNode(n)
freeNode_call(x, n) ==
  /\ frame[x].pc = "idle"
  /\ nodes[n].cow = trees[x].cow
  /\ nodes' = [nodes EXCEPT ![n] = [items |-> items_truncate(nodes[n].items, 0),
                                    children |-> children_truncate(nodes[n].children, 0),
                                    cow |-> NilCow]]
  /\ frame' = [frame EXCEPT ![x].pc = "freeNode:Lock", ![x].n = n]
  /\ UNCHANGED <<trees, freelist, last, ref, mu>>

freeNode_Lock(x) ==
  /\ frame[x].pc = "freeNode:Lock"
  /\ mu_Lock(x)
  /\ frame' = [frame EXCEPT ![x].pc = "freeNode:if", ![x].at = freelist]
  /\ UNCHANGED <<trees, nodes, freelist, last, ref>>

\* if len(f.freelist) < cap(f.freelist): taken
freeNode_room(x) ==
  /\ frame[x].pc = "freeNode:if"
  /\ Len(freelist) < FreeListCap
  /\ frame' = [frame EXCEPT ![x].pc = "freeNode:append"]
  /\ UNCHANGED <<trees, nodes, freelist, last, ref, mu>>

\* if len(f.freelist) < cap(f.freelist): not taken
freeNode_full(x) ==
  /\ frame[x].pc = "freeNode:if"
  /\ ~(Len(freelist) < FreeListCap)
  /\ frame' = [frame EXCEPT ![x].pc = "freeNode:Unlock"]
  /\ UNCHANGED <<trees, nodes, freelist, last, ref, mu>>

\* f.freelist = append(f.freelist, n); out = true
freeNode_append(x) ==
  /\ frame[x].pc = "freeNode:append"
  /\ freelist' = Append(freelist, frame[x].n)
  /\ frame' = [frame EXCEPT ![x].pc = "freeNode:Unlock", ![x].out = TRUE]
  /\ UNCHANGED <<trees, nodes, last, ref, mu>>

freeNode_Unlock(x) ==
  /\ frame[x].pc = "freeNode:Unlock"
  /\ mu_Unlock(x)
  /\ frame' = [frame EXCEPT ![x].pc = "freeNode:return"]
  /\ UNCHANGED <<trees, nodes, freelist, last, ref>>

\* return ftStored or ftFreelistFull; a node the list refused is garbage
freeNode_return(x) ==
  /\ frame[x].pc = "freeNode:return"
  /\ last' = Call("freeNode", x, frame[x].n,
                  IF frame[x].out THEN ftStored ELSE ftFreelistFull)
  /\ nodes' = IF frame[x].out THEN nodes
              ELSE [n \in DOMAIN nodes \ {frame[x].n} |-> nodes[n]]
  /\ frame' = [frame EXCEPT ![x] = Idle]
  /\ UNCHANGED <<trees, freelist, ref, mu>>

\* t and its clone t2, both empty, right after Clone has returned
InitLock ==
  /\ With(BTree_Clone(NewWithFreeList(2, 1), {1}), LAMBDA r :
       trees = [x \in TreeNames |-> IF x = "t" THEN r.t ELSE r.t2])
  /\ nodes = <<>>
  /\ freelist = <<>>
  /\ last = Dropped
  /\ ref = [x \in TreeNames |-> {}]
  /\ mu = Unlocked
  /\ frame = [x \in TreeNames |-> Idle]

NextLock ==
  \E x \in TreeNames :
    \/ newNode_call(x)
    \/ newNode_Lock(x)
    \/ newNode_index(x)
    \/ newNode_new(x)
    \/ newNode_read(x)
    \/ newNode_nil(x)
    \/ newNode_truncate(x)
    \/ newNode_Unlock(x)
    \/ newNode_cow(x)
    \/ \E n \in DOMAIN nodes : freeNode_notOwned(x, n)
    \/ \E n \in DOMAIN nodes : freeNode_call(x, n)
    \/ freeNode_Lock(x)
    \/ freeNode_room(x)
    \/ freeNode_full(x)
    \/ freeNode_append(x)
    \/ freeNode_Unlock(x)
    \/ freeNode_return(x)

SpecLock ==
  InitLock /\ [][NextLock]_vars

(***************************************************************************)
(* What a state shows of a tree.                                           *)
(***************************************************************************)
\* the items a full Ascend of tree ts hands to its iterator, in order
Traversal(ns, t) ==
  BTree_Ascend(ns, t, Visitor(0)).seen

\* the nodes reachable from the root of tree variable x
NodesOf(x) ==
  With(Visit(nodes, trees[x].root, <<>>), LAMBDA order :
    {order[k] : k \in 1..Len(order)})

RECURSIVE SubtreeItems(_)
\* the items stored in the subtree of node n
SubtreeItems(n) ==
  {nodes[n].items[k] : k \in 1..Len(nodes[n].items)}
    \cup UNION {SubtreeItems(nodes[n].children[k]) : k \in 1..Len(nodes[n].children)}

RECURSIVE Height(_)
\* the number of levels below and including node n, along its first child
Height(n) ==
  IF n = NilNode THEN 0
  ELSE IF Len(nodes[n].children) = 0 THEN 1
  ELSE 1 + Height(nodes[n].children[1])

StrictlyIncreasing(s) ==
  \A k \in 1..Len(s) - 1 : Less(s[k], s[k + 1])

IsLeaf(n) ==
  Len(nodes[n].children) = 0

\* the nodes both tree variables reach
SharedNodes ==
  NodesOf("t") \cap NodesOf("t2")

(***************************************************************************)
(* Structure of the trees.                                                 *)
(***************************************************************************)
\* C1: in every tree, the items a full Ascend yields are strictly
\* increasing under Less, the items of every node are strictly increasing,
\* and in every internal node each item of children[i] is less than
\* items[i] and each item of children[i+1] is greater than items[i].
C1_Ordered ==
  \A x \in Trees :
    /\ StrictlyIncreasing(Traversal(nodes, trees[x]))
    /\ \A n \in NodesOf(x) :
         /\ StrictlyIncreasing(nodes[n].items)
         /\ IsLeaf(n) \/
              \A i \in 1..Len(nodes[n].items) :
                /\ i + 1 <= Len(nodes[n].children)
                /\ \A a \in SubtreeItems(nodes[n].children[i]) :
                     Less(a, nodes[n].items[i])
                /\ \A b \in SubtreeItems(nodes[n].children[i + 1]) :
                     Less(nodes[n].items[i], b)

\* two trees of two levels that share a node and hold different items
C1_Witness ==
  /\ Trees = TreeNames
  /\ \A x \in TreeNames : Height(trees[x].root) >= 2
  /\ SharedNodes # {}
  /\ ref["t"] # ref["t2"]

\* C2: every node holds at most 2*degree-1 items and every node other than
\* the root holds at least degree-1 items, for every degree tried.
C2_ItemCounts ==
  \A x \in Trees :
    \A n \in NodesOf(x) :
      /\ Len(nodes[n].items) <= 2 * trees[x].degree - 1
      /\ n # trees[x].root => Len(nodes[n].items) >= trees[x].degree - 1

\* a tree of three levels with a full node and a node at the minimum
C2_Witness ==
  /\ Height(trees["t"].root) = 3
  /\ \E n \in NodesOf("t") : Len(nodes[n].items) = 2 * trees["t"].degree - 1
  /\ \E n \in NodesOf("t") \ {trees["t"].root} :
       Len(nodes[n].items) = trees["t"].degree - 1

\* C3: a node has either no children (a leaf) or exactly one child more
\* than it has items (an internal node).
C3_ChildCounts ==
  \A x \in Trees :
    \A n \in NodesOf(x) :
      \/ Len(nodes[n].children) = 0
      \/ Len(nodes[n].children) = Len(nodes[n].items) + 1

\* a tree of three levels: the root's children are internal nodes with
\* more than two children
C3_Witness ==
  /\ Height(trees["t"].root) = 3
  /\ \E k \in 1..Len(nodes[trees["t"].root].children) :
       Len(nodes[nodes[trees["t"].root].children[k]].children) > 2

(***************************************************************************)
(* Length and clones.                                                      *)
(***************************************************************************)
\* C4: Len() of a tree equals the number of items a full Ascend of it
\* yields, on each side of a Clone.
C4_LenCountsItems ==
  \A x \in Trees :
    BTree_Len(trees[x]) = Len(Traversal(nodes, trees[x]))

\* a tree and its clone that share a node and have different lengths
C4_Witness ==
  /\ Trees = TreeNames
  /\ SharedNodes # {}
  /\ BTree_Len(trees["t"]) > BTree_Len(trees["t2"])
  /\ BTree_Len(trees["t2"]) > 0

\* the heaps the write calls on tree variable x can leave
WritesOn(x) ==
  {BTree_ReplaceOrInsert(Heap(nodes, freelist), trees[x], item).m : item \in Items}
    \cup {BTree_Delete(Heap(nodes, freelist), trees[x], item).m : item \in Items}
    \cup {BTree_DeleteMin(Heap(nodes, freelist), trees[x]).m,
          BTree_DeleteMax(Heap(nodes, freelist), trees[x]).m}
    \cup {BTree_Clear(Heap(nodes, freelist), trees[x], flag).m : flag \in BOOLEAN}

\* C5: whatever write (ReplaceOrInsert, Delete, DeleteMin, DeleteMax,
\* Clear) is called on one of two trees a Clone relates, the heap it leaves
\* shows the other tree with the traversal it had before the call; its
\* length is a field of the other BTree value, which the call never holds.
C5_CloneIsolation ==
  \A x \in Trees :
    \A y \in Trees \ {x} :
      \A m \in WritesOn(x) :
        /\ \A n \in NodesOf(y) : n \in DOMAIN m.nodes
        /\ Traversal(m.nodes, trees[y]) = Traversal(nodes, trees[y])

\* a tree and its clone that still share a node after a write made them
\* differ
C5_Witness ==
  /\ Trees = TreeNames
  /\ SharedNodes # {}
  /\ SharedNodes # NodesOf("t")
  /\ ref["t"] # ref["t2"]
  /\ \E n \in NodesOf("t") \ SharedNodes : nodes[n].cow = trees["t"].cow

(***************************************************************************)
(* What the calls return.  The formulas below read a step of SpecCall:     *)
(* the unprimed state is the tree before the call, last' is the call and   *)
(* its result, the primed state is the tree after it.                      *)
(***************************************************************************)
\* the items of the sequence s
Range(s) ==
  {s[k] : k \in 1..Len(s)}

\* the tree of variable x before, and after, the step
Before(x) ==
  Traversal(nodes, trees[x])

After(x) ==
  Traversal(nodes', trees'[x])

RECURSIVE Without(_, _)
\* the sequence s without the items whose key is that of item
Without(s, item) ==
  IF s = <<>> THEN <<>>
  ELSE IF s[1].key = item.key THEN Without(Tail(s), item)
  ELSE <<s[1]>> \o Without(Tail(s), item)

ReplaceOrInsertStep ==
  last'.op = "ReplaceOrInsert" =>
    With(Range(Before(last'.t)), LAMBDA before :
    With(Range(After(last'.t)), LAMBDA after :
    With(SameKey(before, last'.arg), LAMBDA stored :
      LET x    == last'.t
          item == last'.arg
      IN /\ stored = {} =>
              /\ last'.out = NilItem
              /\ BTree_Len(trees'[x]) = BTree_Len(trees[x]) + 1
              /\ after = before \cup {item}
         /\ stored # {} =>
              /\ stored = {last'.out}
              /\ BTree_Len(trees'[x]) = BTree_Len(trees[x])
              /\ {e.key : e \in after} = {e.key : e \in before}
              /\ after = (before \ stored) \cup {item}
         \* the same item inserted by the call before this one
         /\ (last.op = "ReplaceOrInsert" /\ last.t = x /\ last.arg = item) =>
              /\ last'.out = item
              /\ BTree_Len(trees'[x]) = BTree_Len(trees[x]))))

\* C6: ReplaceOrInsert(x) returns nil and raises Len by one when no stored
\* item equals x; otherwise it returns the item that was stored, stores x
\* in its place and leaves Len and the set of keys as they were.  A second
\* ReplaceOrInsert(x) right after the first returns the first x and leaves
\* Len as it was.
C6_ReplaceOrInsert ==
  [][ReplaceOrInsertStep]_vars

\* ReplaceOrInsert returned the stored version of an item and put another
\* version in its place, below the root of a tree of two levels
C6_Witness ==
  /\ last.op = "ReplaceOrInsert"
  /\ last.out # NilItem
  /\ last.out # last.arg
  /\ last.arg \in Range(Traversal(nodes, trees["t"]))
  /\ Height(trees["t"].root) >= 2
  /\ last.arg \notin Range(nodes[trees["t"].root].items)

DeleteStep ==
  last'.op = "Delete" =>
    With(Before(last'.t), LAMBDA before :
    With(SameKey(Range(before), last'.arg), LAMBDA stored :
      LET x    == last'.t
          item == last'.arg
      IN /\ stored # {} =>
              /\ stored = {last'.out}
              /\ BTree_Len(trees'[x]) = BTree_Len(trees[x]) - 1
              /\ After(x) = Without(before, item)
         /\ stored = {} =>
              /\ last'.out = NilItem
              /\ BTree_Len(trees'[x]) = BTree_Len(trees[x])
              /\ After(x) = before))

\* C7: Delete(x) removes and returns the stored item equal to x and lowers
\* Len by one; when there is none it returns nil and leaves the items and
\* Len as they were, whatever it did to the nodes on its way down.
C7_Delete ==
  [][DeleteStep]_vars

\* Delete returned nil for a key that lies between the items of a tree of
\* two levels, so it went down to a leaf to look for it
C7_Witness ==
  /\ last.op = "Delete"
  /\ last.out = NilItem
  /\ Height(trees["t"].root) >= 2
  /\ \E a, b \in Range(Traversal(nodes, trees["t"])) :
       Less(a, last.arg) /\ Less(last.arg, b)

DeleteMinMaxStep ==
  /\ last'.op = "DeleteMin" =>
       With(Before(last'.t), LAMBDA before :
         LET x == last'.t IN
         /\ before = <<>> =>
              /\ last'.out = NilItem
              /\ After(x) = <<>>
              /\ BTree_Len(trees'[x]) = 0
         /\ before # <<>> =>
              /\ last'.out = before[1]
              /\ After(x) = Tail(before)
              /\ BTree_Len(trees'[x]) = BTree_Len(trees[x]) - 1
         \* a DeleteMin right after a DeleteMin returns a larger item
         /\ (last.op = "DeleteMin" /\ last.t = x /\ last'.out # NilItem) =>
              /\ last.out # NilItem
              /\ Less(last.out, last'.out))
  /\ last'.op = "DeleteMax" =>
       With(Before(last'.t), LAMBDA before :
         LET x == last'.t IN
         /\ before = <<>> =>
              /\ last'.out = NilItem
              /\ After(x) = <<>>
              /\ BTree_Len(trees'[x]) = 0
         /\ before # <<>> =>
              /\ last'.out = before[Len(before)]
              /\ After(x) = SubSeq(before, 1, Len(before) - 1)
              /\ BTree_Len(trees'[x]) = BTree_Len(trees[x]) - 1)

\* C8: DeleteMin (DeleteMax) removes and returns the smallest (largest)
\* item and returns nil on an empty tree; DeleteMin calls in a row return
\* their items in ascending order, and the one that returns nil leaves
\* Len == 0.
C8_DeleteMinMax ==
  [][DeleteMinMaxStep]_vars

\* a DeleteMin returned an item from a tree that still has two levels
C8_Witness ==
  /\ last.op = "DeleteMin"
  /\ last.out # NilItem
  /\ Height(trees["t"].root) >= 2
  /\ \A a \in Range(Traversal(nodes, trees["t"])) : Less(last.out, a)

\* the tree of x has no items: its root is nil or an empty leaf
EmptyTree(x) ==
  \/ trees[x].root = NilNode
  \/ Len(nodes[trees[x].root].items) = 0

\* C9: Get, Has, Min and Max answer as the reference set of the same items
\* does: Get returns the stored item equal to the key or nil, Has says
\* whether there is one, Min and Max return the least and the greatest
\* item; on a tree without items (root nil, or an empty leaf as root) they
\* return nil, nil, nil and false.
C9_ReadsAgree ==
  \A x \in Trees :
    /\ Range(Traversal(nodes, trees[x])) = ref[x]
    /\ EmptyTree(x) <=> ref[x] = {}
    /\ (last.t = x /\ last.op = "Get") =>
         /\ SameKey(ref[x], last.arg) = {} => last.out = NilItem
         /\ SameKey(ref[x], last.arg) # {} => SameKey(ref[x], last.arg) = {last.out}
    /\ (last.t = x /\ last.op = "Has") =>
         last.out = (SameKey(ref[x], last.arg) # {})
    /\ (last.t = x /\ last.op = "Min") =>
         last.out = IF ref[x] = {} THEN NilItem ELSE MinOf(ref[x])
    /\ (last.t = x /\ last.op = "Max") =>
         last.out = IF ref[x] = {} THEN NilItem ELSE MaxOf(ref[x])

\* Max returned nil on a tree whose root is an empty leaf
C9_Witness ==
  /\ last.op = "Max"
  /\ last.out = NilItem
  /\ trees["t"].root # NilNode
  /\ Len(nodes[trees["t"].root].items) = 0

\* C10: once every item that was inserted has been deleted, in whatever
\* order, the tree is empty: Len is 0, Min and Max return nil and Ascend
\* yields nothing.
C10_RoundTrip ==
  \A x \in Trees :
    ref[x] = {} =>
      /\ BTree_Len(trees[x]) = 0
      /\ BTree_Min(nodes, trees[x]) = NilItem
      /\ BTree_Max(nodes, trees[x]) = NilItem
      /\ Traversal(nodes, trees[x]) = <<>>

\* deletes emptied a tree: its root is a leaf without items
C10_Witness ==
  /\ ref["t"] = {}
  /\ trees["t"].root # NilNode
  /\ Len(nodes[trees["t"].root].items) = 0
  /\ Len(nodes[trees["t"].root].children) = 0

(***************************************************************************)
(* Iterators.  The formulas call every iterator with every bound in every  *)
(* reachable state of SpecDeep and compare what the visitor saw with the   *)
(* reference set.                                                          *)
(***************************************************************************)
\* the bounds the iterators are called with: every key, stored or not, and
\* one above all keys
Pivots ==
  {Item(k, 0) : k \in 1..MaxDeepKey + 1}

RECURSIVE Asc(_)
\* the items of the set S in increasing order
Asc(S) ==
  IF S = {} THEN <<>> ELSE With(MinOf(S), LAMBDA a : <<a>> \o Asc(S \ {a}))

RECURSIVE Desc(_)
\* the items of the set S in decreasing order
Desc(S) ==
  IF S = {} THEN <<>> ELSE With(MaxOf(S), LAMBDA a : <<a>> \o Desc(S \ {a}))

\* C11: with a visitor that always returns true, Ascend visits every
\* stored item, AscendGreaterOrEqual(p) the items x >= p, AscendLessThan(p)
\* the items x < p and AscendRange(lo, hi) the items lo <= x < hi, each
\* once and in increasing order, whether or not the bounds are stored.
C11_AscendingIterators ==
  \A x \in Trees :
    /\ BTree_Ascend(nodes, trees[x], Visitor(0)).seen = Asc(ref[x])
    /\ \A p \in Pivots :
         /\ BTree_AscendGreaterOrEqual(nodes, trees[x], p, Visitor(0)).seen
              = Asc({a \in ref[x] : ~Less(a, p)})
         /\ BTree_AscendLessThan(nodes, trees[x], p, Visitor(0)).seen
              = Asc({a \in ref[x] : Less(a, p)})
    /\ \A lo \in Pivots : \A hi \in Pivots :
         BTree_AscendRange(nodes, trees[x], lo, hi, Visitor(0)).seen
           = Asc({a \in ref[x] : ~Less(a, lo) /\ Less(a, hi)})

\* a tree of three levels and bounds lo < hi, neither stored, with stored
\* items below lo, above hi and at least three between them
C11_Witness ==
  /\ Height(trees["t"].root) = 3
  /\ \E lo \in Pivots \ ref["t"] : \E hi \in Pivots \ ref["t"] :
       /\ Len(BTree_AscendRange(nodes, trees["t"], lo, hi, Visitor(0)).seen) >= 3
       /\ \E a \in ref["t"] : Less(a, lo)
       /\ \E b \in ref["t"] : Less(hi, b)

IteratorCalls ==
  {<<"Ascend", NilItem, NilItem>>, <<"Descend", NilItem, NilItem>>}
    \cup {<<it, p, NilItem>> : it \in {"AscendGreaterOrEqual", "AscendLessThan",
                                       "DescendLessOrEqual", "DescendGreaterThan"},
                               p \in Pivots}
    \cup {<<it, a, b>> : it \in {"AscendRange", "DescendRange"}, a \in Pivots, b \in Pivots}

\* the visitor v after the iterator call c on tree variable x
IterateOn(ns, t, c, v) ==
  CASE c[1] = "Ascend" -> BTree_Ascend(ns, t, v)
    [] c[1] = "AscendGreaterOrEqual" -> BTree_AscendGreaterOrEqual(ns, t, c[2], v)
    [] c[1] = "AscendLessThan" -> BTree_AscendLessThan(ns, t, c[2], v)
    [] c[1] = "AscendRange" -> BTree_AscendRange(ns, t, c[2], c[3], v)
    [] c[1] = "Descend" -> BTree_Descend(ns, t, v)
    [] c[1] = "DescendLessOrEqual" -> BTree_DescendLessOrEqual(ns, t, c[2], v)
    [] c[1] = "DescendGreaterThan" -> BTree_DescendGreaterThan(ns, t, c[2], v)
    [] c[1] = "DescendRange" -> BTree_DescendRange(ns, t, c[2], c[3], v)

Iterate(x, c, v) ==
  IterateOn(nodes, trees[x], c, v)

\* the visitor stopped that said false on call k, against the visitor full
\* that never said false: it saw the first k items, no call of iterate
\* began after its last call, and none that the full run does not make
StoppedAt(stopped, full, k) ==
  /\ stopped.seen = SubSeq(full.seen, 1, k)
  /\ stopped.entered = stopped.at
  /\ stopped.entered <= full.entered

\* C13: for each of the eight iterators and every bound, a visitor that
\* returns false on its k-th call is called exactly k times, with the first
\* k items of the range in iteration order, and iterate enters no node
\* after that call.
C13_EarlyTermination ==
  \A x \in Trees :
    \A c \in IteratorCalls :
      With(Iterate(x, c, Visitor(0)), LAMBDA full :
        \A k \in 1..Len(full.seen) :
          StoppedAt(Iterate(x, c, Visitor(k)), full, k))

\* a tree of three levels on which a descending range iterator stopped
\* after two of its items, before it entered every node of the range
C13_Witness ==
  /\ Height(trees["t"].root) = 3
  /\ \E c \in {d \in IteratorCalls : d[1] = "DescendRange"} :
       /\ Len(Iterate("t", c, Visitor(0)).seen) >= 4
       /\ Len(Iterate("t", c, Visitor(2)).seen) = 2
       /\ Iterate("t", c, Visitor(2)).entered < Iterate("t", c, Visitor(0)).entered

(***************************************************************************)
(* The free list.                                                          *)
(***************************************************************************)
\* C14: the free list never holds more nodes than the capacity it was
\* created with, and no node is in it twice.
C14_FreeListCap ==
  /\ Len(freelist) <= FreeListCap
  /\ \A i \in 1..Len(freelist) : \A j \in 1..Len(freelist) :
       freelist[i] = freelist[j] => i = j

\* the free list is full of distinct nodes next to a tree that was cleared
\* while its clone still holds a tree of two levels
C14_Witness ==
  /\ Trees = TreeNames
  /\ Len(freelist) = FreeListCap
  /\ Cardinality(Range(freelist)) = FreeListCap
  /\ trees["t"].root = NilNode
  /\ Height(trees["t2"].root) >= 2

(***************************************************************************)
(* Panics.                                                                 *)
(***************************************************************************)
\* a tree exists only with a degree of 2 or more: New with a smaller one
\* panicked and left no tree, no node and an empty free list
NoTreeOfBadDegree ==
  /\ \A x \in Trees : trees[x].degree >= 2
  /\ last.op = "New" =>
       /\ last.panic = "bad degree"
       /\ Trees = {}
       /\ nodes = <<>>
       /\ freelist = <<>>

\* ReplaceOrInsert panics exactly when its item is nil, no other write
\* panics, and the step of a panic changes no tree, node or free list
AbortStep ==
  /\ (last'.op = "ReplaceOrInsert" /\ last'.arg = NilItem) => last'.panic # ""
  /\ last'.panic # "" =>
       /\ last'.op = "ReplaceOrInsert"
       /\ last'.arg = NilItem
       /\ UNCHANGED <<trees, nodes, freelist, ref, mu, frame>>

\* C17: New with a degree of 1 or less panics and makes no tree;
\* ReplaceOrInsert(nil) panics with the root, every node, Len and the free
\* list as they were before the call; no call panics after it changed
\* something.
C17_PanicsChangeNothing ==
  []NoTreeOfBadDegree /\ [][AbortStep]_vars

\* ReplaceOrInsert(nil) panicked on a tree of two levels that holds every
\* key
C17_Witness ==
  /\ last.op = "ReplaceOrInsert"
  /\ last.panic # ""
  /\ Height(trees["t"].root) >= 2
  /\ ref["t"] = Items

\* C18: freeNode called by the context of a tree on a node that another
\* context owns returns ftNotOwned and leaves every node and the free list
\* as they were; and whatever write is called on one tree, the heap it
\* leaves holds every node the other tree reaches with the items, children
\* and owner it had, none of them in the free list.
C18_NotOwnedUntouched ==
  \A x \in Trees :
    /\ \A n \in DOMAIN nodes :
         nodes[n].cow # trees[x].cow =>
           copyOnWriteContext_freeNode(Heap(nodes, freelist), trees[x].cow, n)
             = [m |-> Heap(nodes, freelist), out |-> ftNotOwned]
    /\ \A y \in Trees \ {x} :
         \A m \in WritesOn(x) :
           \A n \in NodesOf(y) :
             /\ n \in DOMAIN m.nodes
             /\ m.nodes[n] = nodes[n]
             /\ n \notin Range(m.fl)

\* t was cleared into the free list while its clone t2 keeps a tree of two
\* levels whose nodes neither tree owns
C18_Witness ==
  /\ Trees = TreeNames
  /\ trees["t"].root = NilNode
  /\ freelist # <<>>
  /\ Height(trees["t2"].root) >= 2
  /\ \A n \in NodesOf("t2") : nodes[n].cow \notin {trees["t"].cow, trees["t2"].cow}

\* the node n handed to freeNode by the context of tree x is in the free
\* list afterwards
EndsInFreeList(x, n) ==
  n \in Range(copyOnWriteContext_freeNode(Heap(nodes, freelist), trees[x].cow, n).m.fl)

\* C19 as claimed: a node of the tree handed to its context's freeNode ends
\* up in the free list exactly when the context owns it.
C19_StoredIffOwned ==
  \A x \in Trees :
    \A n \in NodesOf(x) :
      EndsInFreeList(x, n) <=> nodes[n].cow = trees[x].cow

\* C19, amended: a node of the tree handed to its context's freeNode ends
\* up in the free list exactly when the context owns it and the free list
\* holds fewer nodes than its capacity; freeNode returns ftStored in that
\* case, ftFreelistFull when the context owns the node and the list is
\* full, and ftNotOwned otherwise.
C19_StoredIffOwnedAndRoom ==
  \A x \in Trees :
    \A n \in NodesOf(x) :
      With(copyOnWriteContext_freeNode(Heap(nodes, freelist), trees[x].cow, n), LAMBDA r :
        /\ n \in Range(r.m.fl) <=>
             (nodes[n].cow = trees[x].cow /\ Len(freelist) < FreeListCap)
        /\ r.out = IF nodes[n].cow # trees[x].cow THEN ftNotOwned
                   ELSE IF Len(freelist) < FreeListCap THEN ftStored
                   ELSE ftFreelistFull)

\* the free list is full while t reaches a node it owns, which freeNode
\* therefore drops, and its clone t2 reaches a node it does not own
C19_Witness ==
  /\ Trees = TreeNames
  /\ Len(freelist) = FreeListCap
  /\ \E n \in NodesOf("t") : nodes[n].cow = trees["t"].cow
  /\ \E n \in NodesOf("t2") : nodes[n].cow # trees["t2"].cow

\* the tree t over the nodes ns has no root and length 0, every read finds
\* nothing and every iterator visits nothing
ReadsNothing(ns, t) ==
  /\ t.root = NilNode
  /\ BTree_Len(t) = 0
  /\ BTree_Min(ns, t) = NilItem
  /\ BTree_Max(ns, t) = NilItem
  /\ \A key \in Pivots : BTree_Get(ns, t, key) = NilItem /\ ~BTree_Has(ns, t, key)
  /\ \A c \in IteratorCalls :
       With(IterateOn(ns, t, c, Visitor(0)), LAMBDA v : v.seen = <<>> /\ v.entered = 0)

\* the tree t over the heap m takes the item as its only one
AcceptsInsert(m, t, item) ==
  With(BTree_ReplaceOrInsert(m, t, item), LAMBDA r :
    /\ ~Panicked(r)
    /\ r.out = NilItem
    /\ BTree_Len(r.t) = 1
    /\ Traversal(r.m.nodes, r.t) = <<item>>)

\* C20: whichever tree Clear(flag) is called on and whatever the flag, the
\* tree it leaves has no root and length 0, its reads find nothing, its
\* iterators visit nothing, and it accepts any item as a new insert;
\* Clear(false) leaves the heap's nodes and the free list as they were.
C20_Clear ==
  \A x \in Trees :
    \A flag \in BOOLEAN :
      With(BTree_Clear(Heap(nodes, freelist), trees[x], flag), LAMBDA r :
        /\ ReadsNothing(r.m.nodes, r.t)
        /\ r.t.degree = trees[x].degree
        /\ \A item \in Items : AcceptsInsert(r.m, r.t, item)
        /\ ~flag => r.m = Heap(nodes, freelist))

\* t has two levels of nodes it owns and the free list has room, so that
\* Clear(true) changes the free list and Clear(false) must not
C20_Witness ==
  /\ Height(trees["t"].root) >= 2
  /\ BTree_Clear(Heap(nodes, freelist), trees["t"], TRUE).m.fl # freelist
  /\ BTree_Clear(Heap(nodes, freelist), trees["t"], FALSE).m.fl = freelist

\* the node the writer of x has in hand inside a call: popped or made by
\* its newNode, or on its way into the list in its freeNode
InHand(x) ==
  IF frame[x].n = NilNode \/ (frame[x].pc = "freeNode:return" /\ frame[x].out)
  THEN {}
  ELSE {frame[x].n}

\* the nodes no context owns
Unowned ==
  {n \in DOMAIN nodes : nodes[n].cow = NilCow}

\* the list, as every goroutine finds it when nobody holds the mutex, holds
\* no nil and no node twice, and each node no context owns is either in the
\* list or in the hand of exactly one goroutine
ListConsistent ==
  /\ \A k \in 1..Len(freelist) : freelist[k] # NilNode
  /\ \A j, k \in 1..Len(freelist) : freelist[j] = freelist[k] => j = k
  /\ \A x \in TreeNames : \A y \in TreeNames \ {x} : InHand(x) \cap InHand(y) = {}
  /\ \A x \in TreeNames : InHand(x) \cap Range(freelist) = {}
  /\ Unowned = Range(freelist) \cup UNION {InHand(x) : x \in TreeNames}

\* the push or pop of the writer of x, now at its Unlock, did to the list
\* found at its Lock what one call of FreeList.newNode or FreeList.freeNode
\* does to it
AsOneCall(x) ==
  /\ frame[x].pc = "newNode:Unlock" =>
       /\ freelist = FreeList_newNode(Heap(nodes, frame[x].at)).m.fl
       /\ IF frame[x].at = <<>>
          THEN nodes[frame[x].n] = ZeroNode
          ELSE frame[x].n = FreeList_newNode(Heap(nodes, frame[x].at)).n
  /\ frame[x].pc = "freeNode:Unlock" =>
       With(FreeList_freeNode(Heap(nodes, frame[x].at), frame[x].n), LAMBDA r :
         freelist = r.m.fl /\ frame[x].out = r.out)

\* C15: in every interleaving of the newNode and freeNode calls of the
\* writers of t and t2, a goroutine holds the mutex exactly while it is at a
\* statement between the Lock and the Unlock of one FreeList.newNode or
\* FreeList.freeNode; each such push or pop changes the list as one atomic
\* call does; the list never holds more than FreeListCap nodes; a popped
\* node is in the hand of one goroutine only; and no node is in the list
\* twice or missing from it after its push was accepted.
C15_FreeListAtomic ==
  /\ \A x \in TreeNames : frame[x].pc \in Critical <=> mu = x
  /\ \A x \in TreeNames : AsOneCall(x)
  /\ Len(freelist) <= FreeListCap
  /\ mu = Unlocked => ListConsistent
  /\ \A x \in TreeNames : \A y \in TreeNames \ {x} : InHand(x) \cap InHand(y) = {}

\* the writer of t is in the middle of a pop from the full list while the
\* writer of t2 waits at the Lock of its push
C15_Witness ==
  /\ mu = "t"
  /\ frame["t"].pc = "newNode:nil"
  /\ Len(freelist) = FreeListCap
  /\ frame["t2"].pc = "freeNode:Lock"

\* the free list calls of the other writer that a write is run among: one
\* at each of the first MaxOthers times the write takes the mutex
MaxOthers ==
  2

Interference ==
  {others \in UNION {[1..k -> {"", "newNode", "freeNode"}] : k \in 0..MaxOthers} :
     others = <<>> \/ others[Len(others)] # ""}

\* the write calls on a tree
Writes ==
  {<<op, item>> : op \in {"ReplaceOrInsert", "Delete"}, item \in Items}
    \cup {<<"DeleteMin", NilItem>>, <<"DeleteMax", NilItem>>}
    \cup {<<"Clear", flag>> : flag \in BOOLEAN}

\* the write w on the tree t over the heap m
Write(m, t, w) ==
  CASE w[1] = "ReplaceOrInsert" -> BTree_ReplaceOrInsert(m, t, w[2])
    [] w[1] = "Delete" -> BTree_Delete(m, t, w[2])
    [] w[1] = "DeleteMin" -> BTree_DeleteMin(m, t)
    [] w[1] = "DeleteMax" -> BTree_DeleteMax(m, t)
    [] w[1] = "Clear" -> BTree_Clear(m, t, w[2])

\* the nodes as a write finds them while the writer of the context c is in
\* the middle of mutating the nodes c owns: their items and children are
\* not what any state of the tree holds
MidWrite(ns, c) ==
  <<>> \o [n \in DOMAIN ns |->
            IF ns[n].cow = c THEN [ns[n] EXCEPT !.items = <<>>, !.children = <<>>] ELSE ns[n]]

\* C16: for a tree x and another tree y that came from one Clone chain and
\* share the free list, every write on x, run while the writer of y is
\* mutating the nodes y owns and calling the free list between the steps of
\* the write, returns what it returns when it runs alone and leaves x with
\* the length and the items it has when the write runs alone; it writes no
\* node that y owns or reaches, puts none of them in the free list, and
\* changes no node other than those x owns and those of the free list; and
\* no node that x owns is reached by y.
C16_ConcurrentWrites ==
  \A x \in Trees :
    \A y \in Trees \ {x} :
      With(NodesOf(y), LAMBDA reached :
      With(MidWrite(nodes, trees[y].cow), LAMBDA ns :
        /\ \A n \in reached : nodes[n].cow # trees[x].cow
        /\ \A w \in Writes :
             With(Write(Heap(nodes, freelist), trees[x], w), LAMBDA alone :
             With(Traversal(alone.m.nodes, alone.t), LAMBDA items :
               \A others \in Interference :
                 With(Write(HeapAmong(ns, freelist, others), trees[x], w), LAMBDA r :
                   /\ r.out = alone.out
                   /\ BTree_Len(r.t) = BTree_Len(alone.t)
                   /\ Traversal(r.m.nodes, r.t) = items
                   /\ \A n \in DOMAIN nodes :
                        \/ r.m.nodes[n] = ns[n] /\ (n \in Range(r.m.fl) => n \in Range(freelist))
                        \/ /\ nodes[n].cow = trees[x].cow \/ n \in Range(freelist)
                           /\ nodes[n].cow # trees[y].cow
                           /\ n \notin reached)))))

\* both trees reach nodes they share and each owns a node of its own, and
\* a call of the other writer on the free list makes a write on t leave a
\* free list other than the one the write leaves when it runs alone
C16_Witness ==
  /\ Trees = TreeNames
  /\ SharedNodes # {}
  /\ \E n \in NodesOf("t") : nodes[n].cow = trees["t"].cow
  /\ \E n \in NodesOf("t2") : nodes[n].cow = trees["t2"].cow
  /\ \E w \in Writes : \E others \in Interference :
       Len(Write(HeapAmong(MidWrite(nodes, trees["t2"].cow), freelist, others), trees["t"], w).m.fl)
         # Len(Write(Heap(nodes, freelist), trees["t"], w).m.fl)

\* the read calls on a tree: the five reads with keys 1..MaxKey + 1, and
\* the eight iterators with pivots of those keys
ReadCalls ==
  LET keys == {Item(k, 0) : k \in 1..MaxKey + 1} IN
  {<<"Min", NilItem, NilItem>>, <<"Max", NilItem, NilItem>>, <<"Len", NilItem, NilItem>>,
   <<"Ascend", NilItem, NilItem>>, <<"Descend", NilItem, NilItem>>}
    \cup {<<op, key, NilItem>> : op \in {"Get", "Has", "AscendGreaterOrEqual", "AscendLessThan",
                                         "DescendLessOrEqual", "DescendGreaterThan"},
                                 key \in keys}
    \cup {<<it, a, b>> : it \in {"AscendRange", "DescendRange"}, a \in keys, b \in keys}

\* a read that makes the root mutable first, as the writes do
Read_mutable(m, t, c) ==
  IF t.root = NilNode
  THEN [m |-> m, t |-> t, out |-> NilItem]
  ELSE With(mutableFor(m, t.root, t.cow), LAMBDA r :
         [m |-> r.m, t |-> [t EXCEPT !.root = r.n], out |-> NilItem])

\* the read call c on the tree t over the heap m: the heap and the tree it
\* leaves, and what it returns (an iterator: what its callback has seen)
Read(m, t, c) ==
  [m |-> m,
   t |-> t,
   out |-> CASE c[1] = "Get" -> BTree_Get(m.nodes, t, c[2])
             [] c[1] = "Has" -> BTree_Has(m.nodes, t, c[2])
             [] c[1] = "Min" -> BTree_Min(m.nodes, t)
             [] c[1] = "Max" -> BTree_Max(m.nodes, t)
             [] c[1] = "Len" -> BTree_Len(t)
             [] OTHER -> IterateOn(m.nodes, t, c, Visitor(0)).seen]

ItemWrites ==
  {w \in Writes : w[1] # "Clear"}

\* C22: whichever tree ReplaceOrInsert, Delete, DeleteMin or DeleteMax is
\* called on, a node that another context owns has after the call the
\* items, children and owner it had before: it was only read or copied.  A
\* node whose items or children the call changed was owned by the tree's
\* context before the call, or came out of the free list and was given that
\* context as its owner; and every node the call added to the heap is owned
\* by the tree's context or was released by it.
C22_MutationGating ==
  \A x \in Trees :
    \A w \in ItemWrites :
      With(Write(Heap(nodes, freelist), trees[x], w), LAMBDA r :
        /\ r.t.cow = trees[x].cow
        /\ \A n \in DOMAIN nodes :
             /\ nodes[n].cow \notin {trees[x].cow, NilCow} => r.m.nodes[n] = nodes[n]
             /\ nodes[n].cow = NilCow =>
                  \/ r.m.nodes[n] = nodes[n]
                  \/ n \in Range(freelist) /\ r.m.nodes[n].cow \in {trees[x].cow, NilCow}
        /\ \A n \in DOMAIN r.m.nodes \ DOMAIN nodes :
             r.m.nodes[n].cow \in {trees[x].cow, NilCow}
        /\ \A n \in DOMAIN r.m.nodes :
             n \in Range(VisitAll(r.m.nodes, <<r.t.root>>, 0, <<>>)) /\ n \notin DOMAIN nodes
               => r.m.nodes[n].cow = trees[x].cow)

\* t has two levels, owns some of its nodes and shares others with its
\* clone, and a Delete on it both changes a node it owns and copies one it
\* does not own
C22_Witness ==
  /\ Trees = TreeNames
  /\ Height(trees["t"].root) >= 2
  /\ \E n \in NodesOf("t") : nodes[n].cow = trees["t"].cow
  /\ \E n \in NodesOf("t") \cap SharedNodes : nodes[n].cow # trees["t"].cow
  /\ \E item \in Items :
       With(Write(Heap(nodes, freelist), trees["t"], <<"Delete", item>>), LAMBDA r :
         /\ r.out # NilItem
         /\ \E n \in DOMAIN nodes : nodes[n].cow = trees["t"].cow /\ r.m.nodes[n] # nodes[n]
         /\ \E n \in DOMAIN r.m.nodes \ DOMAIN nodes :
              n \in Range(VisitAll(r.m.nodes, <<r.t.root>>, 0, <<>>)))

\* the nodes the tree t reaches over the nodes ns
Reached(ns, t) ==
  Range(VisitAll(ns, <<t.root>>, 0, <<>>))

\* every write on the tree c over the current heap leaves the nodes in
\* old as they were, and the root it leaves, if it changed the tree at all,
\* is not one of them
ClonesWhatItTouches(c, old) ==
  \A w \in Writes :
    With(Write(Heap(nodes, freelist), c, w), LAMBDA r :
      /\ \A n \in old : r.m.nodes[n] = nodes[n]
      /\ r.t.root \in old => Traversal(r.m.nodes, r.t) = Traversal(nodes, c))

\* C23: whichever tree Clone is called on, the original and the clone it
\* returns hold two contexts that differ from each other, from the
\* context the tree had and from every context in use; both have the root,
\* degree and length the tree had; no node reached from that root is owned
\* by either new context; and any first write on either of them leaves
\* every node reached from that root as it was (it writes copies only).
C23_Clone ==
  \A x \in Trees :
    With(BTree_Clone(trees[x], UsedCows), LAMBDA r :
      /\ r.t.cow # r.t2.cow
      /\ {r.t.cow, r.t2.cow} \cap (UsedCows \cup {NilCow}) = {}
      /\ r.t = [trees[x] EXCEPT !.cow = r.t.cow]
      /\ r.t2 = [trees[x] EXCEPT !.cow = r.t2.cow]
      /\ \A n \in NodesOf(x) : nodes[n].cow \notin {r.t.cow, r.t2.cow}
      /\ ClonesWhatItTouches(r.t, NodesOf(x))
      /\ ClonesWhatItTouches(r.t2, NodesOf(x)))

\* t owns the nodes of its two levels, so that Clone takes them from it
C23_Witness ==
  /\ Height(trees["t"].root) >= 2
  /\ \A n \in NodesOf("t") : nodes[n].cow = trees["t"].cow
  /\ BTree_Clone(trees["t"], UsedCows).t.cow # trees["t"].cow

RECURSIVE PostOrder(_, _, _)
\* the nodes below and at n, children before their parent, appended to acc
PostOrder(n, k, acc) ==
  IF k < Len(nodes[n].children)
  THEN PostOrder(n, k + 1, PostOrder(nodes[n].children[k + 1], 0, acc))
  ELSE Append(acc, n)

\* the nodes of order that the context c owns, in the same order
OwnedIn(order, c) ==
  SelectSeq(order, LAMBDA n : nodes[n].cow = c)

\* the first k elements of s, or all of s if it has fewer
Prefix(s, k) ==
  SubSeq(s, 1, IF k < Len(s) THEN k ELSE Len(s))

\* C24: Clear(true) on a tree with a root leaves no root and length 0.
\* With the tree's nodes taken children before parent, the nodes its
\* context owns are pushed on the free list in that order until the list is
\* full; the pushed nodes and the first owned node the full list refuses
\* are cleared; every other node, owned by another context or coming after
\* the refused one, keeps its items, children and owner.
C24_ClearReleasesPostOrder ==
  \A x \in Trees :
    trees[x].root # NilNode =>
      With(BTree_Clear(Heap(nodes, freelist), trees[x], TRUE), LAMBDA r :
      With(OwnedIn(PostOrder(trees[x].root, 0, <<>>), trees[x].cow), LAMBDA owned :
      With(FreeListCap - Len(freelist), LAMBDA room :
        /\ r.t.root = NilNode
        /\ r.t.length = 0
        /\ r.m.fl = freelist \o Prefix(owned, room)
        /\ \A n \in DOMAIN nodes :
             r.m.nodes[n] = IF n \in Range(Prefix(owned, room + 1)) THEN ZeroNode ELSE nodes[n])))

\* t has two levels; the first node that Clear(true) meets is owned by
\* another context and skipped, and the free list has room, but for fewer
\* nodes than t owns after it
C24_Witness ==
  /\ Trees = TreeNames
  /\ Height(trees["t"].root) >= 2
  /\ With(PostOrder(trees["t"].root, 0, <<>>), LAMBDA order :
       /\ nodes[order[1]].cow # trees["t"].cow
       /\ Len(OwnedIn(order, trees["t"].cow)) > FreeListCap - Len(freelist))
  /\ Len(freelist) < FreeListCap

\* the calls of the method fn among the calls the heap m holds
CallsOf(m, fn) ==
  {m.calls[k] : k \in {j \in 1..Len(m.calls) : m.calls[j].fn = fn}}

\* C25: whichever item ReplaceOrInsert is called with, every node that
\* insert is invoked on during the call (the root and each child descended
\* into) has fewer than maxItems = 2*degree-1 items when insert is entered,
\* and no node of the tree the call leaves has more than maxItems items.
C25_InsertEntry ==
  \A item \in DeepItems :
    With(BTree_ReplaceOrInsert(Heap(nodes, freelist), trees["t"], item), LAMBDA r :
      /\ \A c \in CallsOf(r.m, "insert") : c.items < maxItems(trees["t"])
      /\ trees["t"].root # NilNode => CallsOf(r.m, "insert") # {}
      /\ \A n \in Reached(r.m.nodes, r.t) :
           Len(r.m.nodes[n].items) <= maxItems(trees["t"]))

\* a tree of three levels in which an insert splits a full node on its way
\* down, so that insert is entered at each of three levels
C25_Witness ==
  /\ Height(trees["t"].root) >= 3
  /\ \E item \in DeepItems :
       With(BTree_ReplaceOrInsert(Heap(nodes, freelist), trees["t"], item), LAMBDA r :
         /\ Cardinality(CallsOf(r.m, "insert")) >= 3
         /\ Cardinality(DOMAIN r.m.nodes) > Cardinality(DOMAIN nodes))

\* the deleting calls of SpecDeep
Deletions ==
  {<<"Delete", item>> : item \in DeepItems}
    \cup {<<"DeleteMin", NilItem>>, <<"DeleteMax", NilItem>>}

\* the node deleteItem calls remove on: the root of t, made mutable
RootOf(m, t) ==
  mutableFor(m, t.root, t.cow).n

\* C26 (as stated): in every call of Delete, DeleteMin and DeleteMax, each
\* entry of remove, the retry issued by growChildAndRemove included, finds
\* its receiver with more than minItems = degree-1 items, or the receiver
\* is the root of the tree.
C26_RemoveEntry ==
  \A d \in Deletions :
    With(Write(Heap(nodes, freelist), trees["t"], d), LAMBDA r :
      \A k \in 1..Len(r.m.calls) :
        r.m.calls[k].fn = "remove" =>
          \/ r.m.calls[k].items > minItems(trees["t"])
          \/ r.m.calls[k].n = RootOf(Heap(nodes, freelist), trees["t"]))

\* entry k of the calls is the remove that growChildAndRemove retries on
\* its receiver after a merge: the merge took one item out of the receiver
RetryAfterMerge(calls, k) ==
  /\ k > 1
  /\ calls[k].fn = "remove"
  /\ calls[k - 1].fn = "growChildAndRemove"
  /\ calls[k - 1].n = calls[k].n
  /\ calls[k - 1].items = calls[k].items + 1

\* C26 (amended): in every call of Delete, DeleteMin and DeleteMax, each
\* entry of remove finds its receiver with more than minItems items, or the
\* receiver is the root, or the entry is the retry after a merge, whose
\* receiver has at least minItems items, one fewer than at its first entry.
C26_RemoveEntryButMerge ==
  \A d \in Deletions :
    With(Write(Heap(nodes, freelist), trees["t"], d), LAMBDA r :
      \A k \in 1..Len(r.m.calls) :
        r.m.calls[k].fn = "remove" =>
          \/ r.m.calls[k].items > minItems(trees["t"])
          \/ r.m.calls[k].n = RootOf(Heap(nodes, freelist), trees["t"])
          \/ /\ RetryAfterMerge(r.m.calls, k)
             /\ r.m.calls[k].items >= minItems(trees["t"]))

\* a tree of three levels in which a deletion makes a node below the root
\* merge two of its children and retry its remove with exactly minItems
\* items
C26_Witness ==
  /\ Height(trees["t"].root) >= 3
  /\ \E d \in Deletions :
       With(Write(Heap(nodes, freelist), trees["t"], d), LAMBDA r :
         /\ r.out # NilItem
         /\ \E k \in 1..Len(r.m.calls) :
              /\ RetryAfterMerge(r.m.calls, k)
              /\ r.m.calls[k].n # RootOf(Heap(nodes, freelist), trees["t"])
              /\ r.m.calls[k].items = minItems(trees["t"]))

\* the entries of growChildAndRemove among the calls
Rebalances(calls) ==
  {k \in 1..Len(calls) : calls[k].fn = "growChildAndRemove"}

\* C27: in every call of Delete, DeleteMin and DeleteMax, each entry of
\* growChildAndRemove at a node is followed by the retried remove at that
\* node, which enters remove at a child of more than minItems items and
\* not growChildAndRemove again; no node rebalances twice, so a deletion
\* rebalances at most once per level.
C27_RebalanceThenDescend ==
  \A d \in Deletions :
    With(Write(Heap(nodes, freelist), trees["t"], d).m.calls, LAMBDA calls :
      /\ \A k \in Rebalances(calls) :
           /\ k + 2 <= Len(calls)
           /\ calls[k + 1].fn = "remove"
           /\ calls[k + 1].n = calls[k].n
           /\ calls[k + 2].fn = "remove"
           /\ calls[k + 2].n # calls[k].n
           /\ calls[k + 2].items > minItems(trees["t"])
      /\ \A j, k \in Rebalances(calls) : calls[j].n = calls[k].n => j = k
      /\ Cardinality(Rebalances(calls)) < Height(trees["t"].root)
           \/ Rebalances(calls) = {})

\* a tree of three levels and the deletion of an item of its root, the
\* separator which a steal at the root moves into the child, followed by a
\* merge one level below
C27_Witness ==
  /\ Height(trees["t"].root) >= 3
  /\ \E item \in Range(nodes[trees["t"].root].items) :
       With(BTree_Delete(Heap(nodes, freelist), trees["t"], item), LAMBDA r :
         /\ r.out = item
         /\ \E k \in Rebalances(r.m.calls) :
              /\ r.m.calls[k].n = trees["t"].root
              /\ r.m.calls[k + 1].items = r.m.calls[k].items
         /\ \E k \in Rebalances(r.m.calls) :
              /\ r.m.calls[k].n # trees["t"].root
              /\ RetryAfterMerge(r.m.calls, k + 1))

\* the deleting calls of Spec
DeleteWrites ==
  {w \in Writes : w[1] \in {"Delete", "DeleteMin", "DeleteMax"}}

\* deleteItem on a root with items, stopped when its remove returns: the
\* heap as remove leaves it and the root remove was called on
AfterRemove(m, t, w) ==
  With(mutableFor(m, t.root, t.cow), LAMBDA r :
    [m |-> remove(r.m, r.n, w[2], minItems(t),
                  CASE w[1] = "Delete" -> removeItem
                    [] w[1] = "DeleteMin" -> removeMin
                    [] w[1] = "DeleteMax" -> removeMax).m,
     root |-> r.n])

\* C28: whenever the remove of a delete leaves the root with no items and
\* a child, that child is its only one and is owned by the context of the
\* tree, the delete makes it the root, and the old root is released: it is
\* emptied, without owner, out of the tree, and in the free list if that
\* had room.  A root left as an empty leaf stays the root.  No delete
\* leaves a root that has children and no items.
C28_RootShrink ==
  \A x \in Trees :
    \A w \in DeleteWrites :
      With(Write(Heap(nodes, freelist), trees[x], w), LAMBDA r :
        /\ ~ (trees[x].root = NilNode \/ Len(nodes[trees[x].root].items) = 0) =>
             With(AfterRemove(Heap(nodes, freelist), trees[x], w), LAMBDA a :
               LET old == a.m.nodes[a.root] IN
               /\ Len(old.items) = 0 /\ Len(old.children) > 0 =>
                    /\ Len(old.children) = 1
                    /\ a.m.nodes[old.children[1]].cow = trees[x].cow
                    /\ r.t.root = old.children[1]
                    /\ r.m.nodes[r.t.root] = a.m.nodes[old.children[1]]
                    /\ r.m.nodes[a.root] = ZeroNode
                    /\ a.root \notin Reached(r.m.nodes, r.t)
                    /\ a.root \in Range(r.m.fl) <=> Len(a.m.fl) < FreeListCap
               /\ Len(old.items) = 0 /\ Len(old.children) = 0 =>
                    /\ r.t.root = a.root
                    /\ r.m.nodes[a.root] = old
               /\ Len(old.items) > 0 => r.t.root = a.root)
        /\ r.t.root # NilNode =>
             ~ (/\ Len(r.m.nodes[r.t.root].items) = 0
                /\ Len(r.m.nodes[r.t.root].children) > 0))

\* t shares the nodes of a tree of two levels with its clone and a delete
\* on it copies the root, merges the two leaves and shrinks; and t2 is a
\* single leaf of one item, which a delete leaves as an empty root
C28_Witness ==
  /\ Trees = TreeNames
  /\ Height(trees["t"].root) = 2
  /\ nodes[trees["t"].root].cow # trees["t"].cow
  /\ \E w \in DeleteWrites :
       /\ With(Write(Heap(nodes, freelist), trees["t"], w), LAMBDA r :
            Len(r.m.nodes[r.t.root].children) = 0)
       /\ With(AfterRemove(Heap(nodes, freelist), trees["t"], w), LAMBDA a :
            /\ Len(a.m.nodes[a.root].items) = 0
            /\ Len(a.m.nodes[a.root].children) = 1)
  /\ Height(trees["t2"].root) = 1
  /\ Len(nodes[trees["t2"].root].items) = 1

\* C29: every node in the free list has no items, no children and no
\* owner.  The node newNode of the context of a tree returns is the last
\* one of the free list, which loses it, or a node that did not exist when
\* the list is empty; it has no items and no children, its owner is that
\* context, and no tree reaches it yet.  A node the context releases while
\* the list has room is the one its next newNode returns.
C29_FreeListNodes ==
  /\ \A k \in 1..Len(freelist) : nodes[freelist[k]] = ZeroNode
  /\ \A x \in Trees :
       With(copyOnWriteContext_newNode(Heap(nodes, freelist), trees[x].cow), LAMBDA r :
         /\ r.m.nodes[r.n] = [ZeroNode EXCEPT !.cow = trees[x].cow]
         /\ \A y \in Trees : r.n \notin Reached(r.m.nodes, trees[y])
         /\ \A n \in DOMAIN nodes \ {r.n} : r.m.nodes[n] = nodes[n]
         /\ IF Len(freelist) > 0
            THEN /\ r.n = freelist[Len(freelist)]
                 /\ r.m.fl = SubSeq(freelist, 1, Len(freelist) - 1)
            ELSE /\ r.n \notin DOMAIN nodes
                 /\ r.m.fl = <<>>)
  /\ \A x \in Trees :
       \A n \in NodesOf(x) :
         nodes[n].cow = trees[x].cow /\ Len(freelist) < FreeListCap =>
           With(copyOnWriteContext_freeNode(Heap(nodes, freelist), trees[x].cow, n), LAMBDA f :
           With(copyOnWriteContext_newNode(f.m, trees[x].cow), LAMBDA r :
             /\ r.n = n
             /\ r.m.fl = freelist
             /\ r.m.nodes[n] = [ZeroNode EXCEPT !.cow = trees[x].cow]))

\* the free list holds a node while t owns a node with items of the tree
\* it reaches: newNode pops the one, and the other, once released, is on
\* top of it
C29_Witness ==
  /\ Len(freelist) = 1
  /\ "t" \in Trees
  /\ \E n \in NodesOf("t") : nodes[n].cow = trees["t"].cow /\ Len(nodes[n].items) > 0

\* the depths of the leaves below the node n, itself at depth d
RECURSIVE LeafDepths(_, _, _)
LeafDepths(ns, n, d) ==
  IF Len(ns[n].children) = 0
  THEN {d}
  ELSE UNION {LeafDepths(ns, ns[n].children[k], d + 1) : k \in 1..Len(ns[n].children)}

\* every leaf of the tree of this root is at the same depth
Balanced(ns, root) ==
  root = NilNode \/ Cardinality(LeafDepths(ns, root, 1)) = 1

\* the number of levels of the tree of this root
HeightOn(ns, root) ==
  IF root = NilNode THEN 0
  ELSE CHOOSE d \in LeafDepths(ns, root, 1) : \A e \in LeafDepths(ns, root, 1) : e <= d

\* C30: the leaves of the tree are all at one depth, and stay so through
\* every ReplaceOrInsert, Delete, DeleteMin and DeleteMax.  ReplaceOrInsert
\* adds one level exactly when it finds no root or splits a full root, and
\* otherwise keeps the height; a delete takes one level away exactly when
\* it replaces a root left without items by its child, and otherwise keeps
\* the height.  Splitting a full child of a node, and growing a child of
\* minItems items by a steal or a merge, leave every leaf below the node
\* at the depth it had.
C30_Balance ==
  LET t == trees["t"]
      m == Heap(nodes, freelist)
      h == HeightOn(nodes, t.root)
  IN
  /\ Balanced(nodes, t.root)
  /\ \A item \in DeepItems :
       With(BTree_ReplaceOrInsert(m, t, item), LAMBDA r :
         /\ Balanced(r.m.nodes, r.t.root)
         /\ HeightOn(r.m.nodes, r.t.root) =
              IF t.root = NilNode \/ Len(nodes[t.root].items) >= maxItems(t)
              THEN h + 1 ELSE h)
  /\ \A d \in Deletions :
       With(Write(m, t, d), LAMBDA r :
         /\ Balanced(r.m.nodes, r.t.root)
         /\ HeightOn(r.m.nodes, r.t.root) =
              IF /\ t.root # NilNode
                 /\ Len(nodes[t.root].items) > 0
                 /\ With(AfterRemove(m, t, d), LAMBDA a :
                      /\ Len(a.m.nodes[a.root].items) = 0
                      /\ Len(a.m.nodes[a.root].children) > 0)
              THEN h - 1 ELSE h)
  /\ \A n \in Reached(nodes, t) :
       \A i \in 0..Len(nodes[n].children) - 1 :
         /\ LeafDepths(maybeSplitChild(m, n, i, maxItems(t)).m.nodes, n, 1)
              = LeafDepths(nodes, n, 1)
         /\ Len(nodes[nodes[n].children[i + 1]].items) <= minItems(t) =>
              LeafDepths(growChild(m, n, i, minItems(t)).nodes, n, 1)
                = LeafDepths(nodes, n, 1)

\* a tree of three levels whose root has a child of minItems items, itself
\* with children, that grows by a steal which moves a grandchild over
C30_Witness ==
  LET t == trees["t"]
      m == Heap(nodes, freelist)
  IN
  /\ HeightOn(nodes, t.root) = 3
  /\ \E i \in 0..Len(nodes[t.root].children) - 1 :
       With(nodes[t.root].children[i + 1], LAMBDA c :
         /\ Len(nodes[c].items) <= minItems(t)
         /\ With(growChild(m, t.root, i, minItems(t)), LAMBDA g :
              /\ Len(g.nodes[t.root].children) = Len(nodes[t.root].children)
              /\ Len(g.nodes[c].children) = Len(nodes[c].children) + 1))

\* C31: no node of the free list is reached from the root of any tree,
\* and every write on a tree (insert, delete, Clear) ends the same way: the
\* nodes it has released are out of the tree it wrote, and the nodes every
\* other tree reaches are as they were and out of the free list, also when
\* the write took nodes from the free list and wrote into them.
C31_NoDanglingReuse ==
  /\ \A x \in Trees : Range(freelist) \cap NodesOf(x) = {}
  /\ \A x \in Trees :
       \A w \in Writes :
         With(Write(Heap(nodes, freelist), trees[x], w), LAMBDA r :
           /\ Range(r.m.fl) \cap Reached(r.m.nodes, r.t) = {}
           /\ \A y \in Trees \ {x} :
                \A n \in NodesOf(y) :
                  /\ r.m.nodes[n] = nodes[n]
                  /\ n \notin Range(r.m.fl))

\* t and its clone t2 reach a common node while the free list holds a
\* node; one write on t takes a node from the list and links it into t,
\* another releases a node of t to the list
C31_Witness ==
  /\ Trees = TreeNames
  /\ NodesOf("t") \cap NodesOf("t2") # {}
  /\ Len(freelist) > 0
  /\ \E w \in Writes :
       With(Write(Heap(nodes, freelist), trees["t"], w), LAMBDA r :
         freelist[Len(freelist)] \in Reached(r.m.nodes, r.t))
  /\ \E w \in Writes :
       With(Write(Heap(nodes, freelist), trees["t"], w), LAMBDA r :
         Range(r.m.fl) \cap NodesOf("t") # {})

\* the nodes whose owner is the context of the tree x
OwnedBy(x) ==
  {n \in DOMAIN nodes : nodes[n].cow = trees[x].cow}

\* C32: in every state between operations and for every tree, a node
\* whose owner is the context of the tree is reached from the root of that
\* tree and from the root of no other tree, the parent in the tree of such
\* a node has the same owner, and the root has that owner whenever some
\* node has; two trees never have the same context.
C32_OwnershipShape ==
  \A x \in Trees :
    /\ \A y \in Trees \ {x} : trees[y].cow # trees[x].cow
    /\ \A n \in OwnedBy(x) :
         /\ n \in NodesOf(x)
         /\ \A y \in Trees \ {x} : n \notin NodesOf(y)
    /\ \A p \in NodesOf(x) :
         \A k \in 1..Len(nodes[p].children) :
           nodes[p].children[k] \in OwnedBy(x) => p \in OwnedBy(x)
    /\ OwnedBy(x) # {} => trees[x].root \in OwnedBy(x)

\* t and its clone t2 have two levels each and reach a common leaf that
\* neither owns, below roots and other leaves that each of them owns
C32_Witness ==
  /\ Trees = TreeNames
  /\ \A x \in TreeNames :
       /\ trees[x].root \in OwnedBy(x)
       /\ \E k \in 1..Len(nodes[trees[x].root].children) :
            nodes[trees[x].root].children[k] \in OwnedBy(x)
  /\ \E n \in NodesOf("t") \cap NodesOf("t2") :
       nodes[n].cow \notin {trees["t"].cow, trees["t2"].cow, NilCow}

====
